---- MODULE Spec2Model ----
(***************************************************************************)
(* Consensus merger of multi-model-dev/scripts/merger.py.                  *)
(*                                                                         *)
(* A text (Python str) is a finite sequence of tokens.  A token is a       *)
(* maximal run of blanks (" ", "  ", "    ", "        "), a line break     *)
(* "\n", a punctuation mark, or a word (identifier, keyword, number).      *)
(* Concatenating the tokens of a text gives the Python string, so          *)
(*   s + t            is  s \o t                                           *)
(*   '\n\n\n'.join    is  concatenation with <<NL, NL, NL>> in between     *)
(*   s.count('\n')    is  the number of NL tokens                          *)
(* and the regular expressions and substring tests of the program are      *)
(* evaluated token by token.  ast.parse is modelled for the fragment of    *)
(* Python the vocabulary can spell (CPython 3.8 or later: the lineno of a  *)
(* decorated definition is the line of its def/class keyword).             *)
(***************************************************************************)
EXTENDS Integers, Sequences, FiniteSets, TLC

(***************************************************************************)
(* Tokens                                                                  *)
(***************************************************************************)
NL == "\n"
\* the fence of a Markdown code block, three backquotes (a backquote cannot
\* be written in a string of this language)
FENCE == "<fence>"
SP == " "
Blanks == {" ", "  ", "    ", "        "}
Punct == {FENCE, "(", ")", "[", "]", "{", "}", ",", ":", "=", ".", "->", "@",
          "+", "*", "\"", "'", "\"\"\"", "'''", "#"}

\* \s
IsSpace(t) == t \in Blanks \cup {NL}
\* one or more \w
IsWord(t) == ~IsSpace(t) /\ t \notin Punct

\* the positions of s, in order
Indices(s) == [i \in 1..Len(s) |-> i]

\* str.count(t)
Count(s, t) == Len(SelectSeq(s, LAMBDA x : x = t))

\* smallest i >= k with s[i] = t, 0 when there is none
IndexFrom(s, t, k) ==
    LET at == SelectSeq(Indices(s), LAMBDA i : i >= k /\ s[i] = t)
    IN  IF at = <<>> THEN 0 ELSE at[1]

Has(s, t) == \E i \in 1..Len(s) : s[i] = t

\* sub occurs in s as a run of consecutive tokens
HasRun(s, sub) ==
    \E i \in 1..Len(s) :
        /\ i + Len(sub) - 1 <= Len(s)
        /\ SubSeq(s, i, i + Len(sub) - 1) = sub

\* the positions of s that hold no white space
Inked(s) == SelectSeq(Indices(s), LAMBDA i : ~IsSpace(s[i]))

lstrip(s) == IF Inked(s) = <<>> THEN <<>> ELSE SubSeq(s, Inked(s)[1], Len(s))

rstrip(s) == IF Inked(s) = <<>> THEN <<>> ELSE SubSeq(s, 1, Inked(s)[Len(Inked(s))])

\* str.strip()
strip(s) == rstrip(lstrip(s))

\* re.sub(r'\s+', ' ', s)
sub_ws(s) ==
    LET kept == SelectSeq(Indices(s),
                          LAMBDA i : ~IsSpace(s[i]) \/ i = 1 \/ ~IsSpace(s[i - 1]))
    IN  [j \in 1..Len(kept) |-> IF IsSpace(s[kept[j]]) THEN SP ELSE s[kept[j]]]

\* str.split('\n')
split_lines(s) ==
    LET nl == SelectSeq(Indices(s), LAMBDA i : s[i] = NL)
    IN  [k \in 1..Len(nl) + 1 |->
            SubSeq(s, IF k = 1 THEN 1 ELSE nl[k - 1] + 1,
                      IF k = Len(nl) + 1 THEN Len(s) ELSE nl[k] - 1)]

\* sep.join(parts)
RECURSIVE join(_, _)
join(sep, parts) ==
    IF parts = <<>> THEN <<>>
    ELSE IF Len(parts) = 1 THEN parts[1]
    ELSE LET half == Len(parts) \div 2
         IN  join(sep, SubSeq(parts, 1, half)) \o sep
                 \o join(sep, SubSeq(parts, half + 1, Len(parts)))

\* str.lower() on the tags the vocabulary spells
lower(t) ==
    CASE t = "Python" -> "python"
      [] t = "PY" -> "py"
      [] t = "TSX" -> "tsx"
      [] t = "Security" -> "security"
      [] OTHER -> t

(***************************************************************************)
(* CodeBlock, CodeBlockParser                                              *)
(***************************************************************************)
CodeBlock(content, language, source_model, start_line, end_line) ==
    [content |-> content, language |-> language, source_model |-> source_model,
     start_line |-> start_line, end_line |-> end_line]

\* hashlib.md5(x).hexdigest()[:8]: 32 bits of the digest.  Distinct texts
\* have distinct digests except where the truncated digest collides;
\* md5("MAX_SIZE = 4405")[:8] = md5("MAX_SIZE = 103063")[:8] = "55ebf119".
md5_8(normalized) ==
    IF normalized \in {<<"MAX_SIZE", SP, "=", SP, "4405">>,
                       <<"MAX_SIZE", SP, "=", SP, "103063">>}
    THEN <<"55ebf119">>
    ELSE <<"md5">> \o normalized

hash(block) == md5_8(sub_ws(strip(block.content)))

LANGUAGE_ALIASES(language) ==
    CASE language = "py" -> "python"
      [] language = "js" -> "javascript"
      [] language = "ts" -> "typescript"
      [] language = "tsx" -> "typescript"
      [] language = "jsx" -> "javascript"
      [] language = "sh" -> "bash"
      [] language = "shell" -> "bash"
      [] language = "yml" -> "yaml"
      [] OTHER -> language

\* CODE_BLOCK_PATTERN (a fence, an optional word, a line break, the shortest
\* text up to the next fence) tried at token i of output
CODE_BLOCK_PATTERN(output, i) ==
    IF output[i] # FENCE THEN [found |-> FALSE]
    ELSE LET hasTag == i + 1 <= Len(output) /\ IsWord(output[i + 1])
             nl == IF hasTag THEN i + 2 ELSE i + 1
         IN  IF nl > Len(output) \/ output[nl] # NL THEN [found |-> FALSE]
             ELSE LET close == IndexFrom(output, FENCE, nl + 1)
                  IN  IF close = 0 THEN [found |-> FALSE]
                      ELSE [found |-> TRUE, start |-> i, end |-> close,
                            group1 |-> IF hasTag THEN output[i + 1] ELSE "",
                            group2 |-> SubSeq(output, nl + 1, close - 1)]

\* CODE_BLOCK_PATTERN.finditer(output), from token k on
RECURSIVE finditer(_, _)
finditer(output, k) ==
    IF k > Len(output) THEN <<>>
    ELSE LET i == IndexFrom(output, FENCE, k)
             m == CODE_BLOCK_PATTERN(output, i)
         IN  IF i = 0 THEN <<>>
             ELSE IF m.found THEN <<m>> \o finditer(output, m.end + 1)
             ELSE finditer(output, i + 1)

RECURSIVE blocks_of_matches(_, _, _)
blocks_of_matches(matches, output, source_model) ==
    IF matches = <<>> THEN <<>>
    ELSE LET match == Head(matches)
             tag == IF lower(match.group1) = "" THEN "text" ELSE lower(match.group1)
             language == LANGUAGE_ALIASES(tag)
             content == strip(match.group2)
             rest == blocks_of_matches(Tail(matches), output, source_model)
         IN  IF content # <<>>
             THEN <<CodeBlock(content, language, source_model,
                              Count(SubSeq(output, 1, match.start - 1), NL) + 1,
                              Count(SubSeq(output, 1, match.end), NL) + 1)>> \o rest
             ELSE rest

\* parse without the fallback for a text that has no fenced block
fenced_blocks(output, source_model) ==
    blocks_of_matches(finditer(output, 1), output, source_model)

CodeBlockParser_parse(output, source_model) ==
    LET blocks == blocks_of_matches(finditer(output, 1), output, source_model)
    IN  IF blocks = <<>> /\ strip(output) # <<>>
        THEN <<CodeBlock(strip(output), "text", source_model, 0, 0)>>
        ELSE blocks

RECURSIVE dedup_loop(_, _, _)
dedup_loop(blocks, seen, unique) ==
    IF blocks = <<>> THEN unique
    ELSE IF hash(Head(blocks)) \notin seen
         THEN dedup_loop(Tail(blocks), seen \cup {hash(Head(blocks))},
                         Append(unique, Head(blocks)))
         ELSE dedup_loop(Tail(blocks), seen, unique)

deduplicate(blocks) == dedup_loop(blocks, {}, <<>>)

(***************************************************************************)
(* ast.parse on the fragment of Python the vocabulary spells: one          *)
(* statement per physical line, blocks by indentation.                     *)
(***************************************************************************)
Quotes == {"\"", "'", "\"\"\"", "'''"}
Openers == {"(", "[", "{"}
Closers == {")", "]", "}"}
CloserOf(t) == CASE t = "(" -> ")" [] t = "[" -> "]" [] t = "{" -> "}"
\* words that cannot stand in an expression
Keywords == {"def", "class", "import", "from", "return", "raise", "pass", "try",
             "except", "assert", "async", "as", "if", "for", "while"}
BinaryOps == {"+", "*", ".", "=", ":", "in"}

Width(t) ==
    CASE t = " " -> 1 [] t = "  " -> 2 [] t = "    " -> 4 [] t = "        " -> 8

\* the tokens of a physical line that the grammar sees: no blanks, no comment
RECURSIVE code_tokens(_, _)
code_tokens(line, instr) ==
    IF line = <<>> THEN <<>>
    ELSE LET t == Head(line)
         IN  IF instr # ""
             THEN <<t>> \o code_tokens(Tail(line), IF t = instr THEN "" ELSE instr)
             ELSE IF t = "#" THEN <<>>
             ELSE IF t \in Blanks THEN code_tokens(Tail(line), "")
             ELSE <<t>> \o code_tokens(Tail(line), IF t \in Quotes THEN t ELSE "")

line_indent(line) ==
    IF line # <<>> /\ Head(line) \in Blanks THEN Width(Head(line)) ELSE 0

\* the non-blank lines of a text: [lineno, indent, toks]
logical_lines(lines, n) ==
    SelectSeq([k \in 1..Len(lines) |->
                  [lineno |-> n + k - 1, indent |-> line_indent(lines[k]),
                   toks |-> code_tokens(lines[k], "")]],
              LAMBDA line : line.toks # <<>>)

\* an expression: brackets nest, string literals end, operands and operators
\* alternate.  prev is the class of the token before e[i].
RECURSIVE expr_scan(_, _, _, _, _)
expr_scan(e, i, stack, instr, prev) ==
    IF i > Len(e)
    THEN stack = <<>> /\ instr = "" /\ prev \in {"operand", "close", "string"}
    ELSE LET t == e[i]
         IN  IF instr # ""
             THEN IF t = instr THEN expr_scan(e, i + 1, stack, "", "string")
                  ELSE expr_scan(e, i + 1, stack, instr, prev)
             ELSE IF t \in Quotes
             THEN prev \notin {"operand", "close"} /\ expr_scan(e, i + 1, stack, t, prev)
             ELSE IF t \in Openers
             THEN prev # "string"
                  /\ expr_scan(e, i + 1, <<CloserOf(t)>> \o stack, "", "open")
             ELSE IF t \in Closers
             THEN /\ stack # <<>>
                  /\ Head(stack) = t
                  /\ prev # "op"
                  /\ expr_scan(e, i + 1, Tail(stack), "", "close")
             ELSE IF t = ","
             THEN prev \in {"operand", "close", "string"}
                  /\ expr_scan(e, i + 1, stack, "", "comma")
             ELSE IF t \in BinaryOps
             THEN /\ prev \in {"operand", "close", "string"}
                  /\ (t \in {"=", ":"} => stack # <<>>)
                  /\ expr_scan(e, i + 1, stack, "", "op")
             ELSE IF IsWord(t) /\ t \notin Keywords
             THEN prev \notin {"operand", "close", "string"}
                  /\ expr_scan(e, i + 1, stack, "", "operand")
             ELSE FALSE

ExprOK(e) == e # <<>> /\ expr_scan(e, 1, <<>>, "", "start")

\* a dotted name as one string, "" when the tokens are not a dotted name
RECURSIVE dotted_name(_)
dotted_name(e) ==
    IF e = <<>> \/ ~IsWord(e[1]) \/ e[1] \in Keywords THEN ""
    ELSE IF Len(e) = 1 THEN e[1]
    ELSE IF Len(e) >= 3 /\ e[2] = "." /\ dotted_name(SubSeq(e, 3, Len(e))) # ""
         THEN e[1] \o "." \o dotted_name(SubSeq(e, 3, Len(e)))
    ELSE ""

\* the items of a comma-separated list (commas inside brackets do not split)
RECURSIVE split_commas(_, _, _)
split_commas(e, depth, cur) ==
    IF e = <<>> THEN <<cur>>
    ELSE LET t == Head(e)
         IN  IF t = "," /\ depth = 0 THEN <<cur>> \o split_commas(Tail(e), 0, <<>>)
             ELSE split_commas(Tail(e),
                               IF t \in Openers THEN depth + 1
                               ELSE IF t \in Closers /\ depth > 0 THEN depth - 1
                               ELSE depth,
                               Append(cur, t))

\* ast.alias of one item of an import list: its name as one string and as
\* tokens, and its asname
\* k is the place of "as" in item, 0 when it has none; nm the name before it
alias_of(item, k, nm) ==
    IF item = <<"*">> THEN [ok |-> TRUE, name |-> "*", toks |-> item, asname |-> ""]
    ELSE IF k = 0 THEN [ok |-> nm # "", name |-> nm, toks |-> item, asname |-> ""]
    ELSE [ok |-> nm # "" /\ Len(item) = k + 1 /\ IsWord(item[k + 1])
                    /\ item[k + 1] \notin Keywords,
          name |-> nm, toks |-> SubSeq(item, 1, k - 1),
          asname |-> IF Len(item) > k THEN item[k + 1] ELSE ""]

before_as(item, k) == IF k = 0 THEN item ELSE SubSeq(item, 1, k - 1)

alias(item) ==
    alias_of(item, IndexFrom(item, "as", 1),
             dotted_name(before_as(item, IndexFrom(item, "as", 1))))

alias_each(items) == [i \in 1..Len(items) |-> alias(items[i])]

aliases(e) == alias_each(split_commas(e, 0, <<>>))

AllOK(recs) == \A i \in 1..Len(recs) : recs[i].ok

\* smallest i >= k with t[i] = tok outside brackets and strings, 0 when none
RECURSIVE top_index(_, _, _, _, _)
top_index(t, tok, i, depth, instr) ==
    IF i > Len(t) THEN 0
    ELSE IF instr # "" THEN top_index(t, tok, i + 1, depth, IF t[i] = instr THEN "" ELSE instr)
    ELSE IF t[i] = tok /\ depth = 0 THEN i
    ELSE IF t[i] \in Quotes THEN top_index(t, tok, i + 1, depth, t[i])
    ELSE IF t[i] \in Openers THEN top_index(t, tok, i + 1, depth + 1, "")
    ELSE IF t[i] \in Closers /\ depth > 0 THEN top_index(t, tok, i + 1, depth - 1, "")
    ELSE top_index(t, tok, i + 1, depth, "")

\* the bracket that closes the one opened just before t[i], 0 when none
RECURSIVE closing(_, _, _)
closing(t, i, depth) ==
    IF i > Len(t) THEN 0
    ELSE IF t[i] \in Closers THEN (IF depth = 0 THEN i ELSE closing(t, i + 1, depth - 1))
    ELSE IF t[i] \in Openers THEN closing(t, i + 1, depth + 1)
    ELSE closing(t, i + 1, depth)

IsName(t) == IsWord(t) /\ t \notin Keywords

\* a statement of the syntax tree before its block is attached
Stmt == [ok |-> TRUE, type |-> "Expr", name |-> "", names |-> <<>>, module |-> "",
         module_toks |-> <<>>, level |-> 0, args |-> <<>>, bases |-> <<>>, targets |-> <<>>,
         compound |-> FALSE, inline |-> <<>>, is_str |-> FALSE]
Bad == [Stmt EXCEPT !.ok = FALSE]

\* one formal parameter: name, name: annotation, name=default
param_ok(p) ==
    /\ p # <<>>
    /\ IsName(p[1])
    /\ Len(p) > 1 => (p[2] \in {":", "="} /\ ExprOK(SubSeq(p, 3, Len(p))))

\* ast.Name -> id, ast.Attribute -> dotted, anything else "unknown"
name_or_unknown(name) == IF name # "" THEN name ELSE "unknown"

_get_name(e) == name_or_unknown(dotted_name(e))

\* ast.Call -> the name of its func
_get_decorator_name(e) == _get_name(before_as(e, IndexFrom(e, "(", 1)))

\* import followed by the aliases as
import_of(t, as) ==
    IF Len(t) >= 2 /\ AllOK(as) /\ \A i \in 1..Len(as) : as[i].name # "*"
    THEN [Stmt EXCEPT !.type = "Import", !.names = as]
    ELSE Bad

import_stmt(t) == import_of(t, aliases(Tail(t)))

\* the dots that follow from, when import stands at k
leading_dots(t, k) ==
    IF k = 0 THEN 0 ELSE Cardinality({i \in 2..(k - 1) : \A j \in 2..i : t[j] = "."})

\* from, dots dots, the module rest (module as one string), import at k,
\* the aliases as
import_from_of(t, k, dots, rest, module, as) ==
    IF /\ k # 0
       /\ k < Len(t)
       /\ AllOK(as)
       /\ (rest = <<>> /\ dots > 0) \/ module # ""
    THEN [Stmt EXCEPT !.type = "ImportFrom", !.names = as, !.level = dots,
                      !.module = module, !.module_toks = rest]
    ELSE Bad

import_from_at(t, k, dots) ==
    import_from_of(t, k, dots,
                   IF k = 0 THEN <<>> ELSE SubSeq(t, 2 + dots, k - 1),
                   IF k = 0 THEN "" ELSE dotted_name(SubSeq(t, 2 + dots, k - 1)),
                   IF k = 0 THEN <<>> ELSE aliases(SubSeq(t, k + 1, Len(t))))

import_from_stmt(t) ==
    import_from_at(t, IndexFrom(t, "import", 2), leading_dots(t, IndexFrom(t, "import", 2)))

\* def name(params) [-> annotation]: [simple statement]
\* the parentheses close at close, the colon stands at colon, ps are the
\* parameters
def_of(t, type, close, colon, ps) ==
    IF /\ close # 0
       /\ t[close] = ")"
       /\ IsName(t[2])
       /\ colon # 0
       /\ \A i \in 1..Len(ps) : param_ok(ps[i])
       /\ \/ colon = close + 1
          \/ t[close + 1] = "->" /\ ExprOK(SubSeq(t, close + 2, colon - 1))
    THEN [Stmt EXCEPT !.type = type, !.name = t[2], !.compound = TRUE,
                      !.args = [i \in 1..Len(ps) |-> ps[i][1]],
                      !.inline = SubSeq(t, colon + 1, Len(t))]
    ELSE Bad

\* the items between the parentheses that open at 3 and close at close
in_parentheses(t, close) ==
    IF close <= 4 THEN <<>> ELSE split_commas(SubSeq(t, 4, close - 1), 0, <<>>)

def_at(t, type, close) ==
    def_of(t, type, close,
           IF close = 0 THEN 0 ELSE top_index(t, ":", close + 1, 0, ""),
           in_parentheses(t, close))

def_stmt(t, type) ==
    def_at(t, type, IF Len(t) >= 3 /\ t[3] = "(" THEN closing(t, 4, 0) ELSE 0)

\* class name[(bases)]: [simple statement]
class_of(t, close, bs) ==
    IF /\ Len(t) >= 3
       /\ IsName(t[2])
       /\ close # 0
       /\ Len(t) > close
       /\ t[close + 1] = ":"
       /\ \A i \in 1..Len(bs) : ExprOK(bs[i])
    THEN [Stmt EXCEPT !.type = "ClassDef", !.name = t[2], !.compound = TRUE,
                      !.bases = [i \in 1..Len(bs) |-> _get_name(bs[i])],
                      !.inline = SubSeq(t, close + 2, Len(t))]
    ELSE Bad

class_at(t, close) == class_of(t, close, in_parentheses(t, close))

class_stmt(t) == class_at(t, IF Len(t) >= 3 /\ t[3] = "(" THEN closing(t, 4, 0) ELSE 2)

\* keyword [expression] : [simple statement]
header_of(t, type, needs_expr, colon, k, target) ==
    IF /\ colon # 0
       /\ IF SubSeq(t, 2, IF k # 0 /\ k < colon THEN k - 1 ELSE colon - 1) = <<>>
          THEN ~needs_expr
          ELSE IF type = "For"
          THEN /\ target # 0
               /\ ExprOK(SubSeq(t, 2, target - 1))
               /\ ExprOK(SubSeq(t, target + 1, colon - 1))
          ELSE ExprOK(SubSeq(t, 2, IF k # 0 /\ k < colon THEN k - 1 ELSE colon - 1))
       /\ (k # 0 /\ k < colon) => (type = "Except" /\ colon = k + 2 /\ IsName(t[k + 1]))
    THEN [Stmt EXCEPT !.type = type, !.compound = TRUE,
                      !.inline = SubSeq(t, colon + 1, Len(t))]
    ELSE Bad

header_stmt(t, type, needs_expr) ==
    header_of(t, type, needs_expr, top_index(t, ":", 2, 0, ""), IndexFrom(t, "as", 2),
              IndexFrom(t, "in", 2))

\* the node type of a header keyword
HeaderType(keyword) ==
    CASE keyword = "if" -> "If"
      [] keyword = "while" -> "While"
      [] keyword = "for" -> "For"
      [] keyword = "try" -> "Try"
      [] keyword = "except" -> "Except"

\* the parts of target = target = value
RECURSIVE split_assign(_)
split_at(t, eq) ==
    IF eq = 0 THEN <<t>>
    ELSE <<SubSeq(t, 1, eq - 1)>> \o split_assign(SubSeq(t, eq + 1, Len(t)))

split_assign(t) == split_at(t, top_index(t, "=", 1, 0, ""))

\* parts are the targets and the value, colon the place of an annotation
assign_of(parts, colon) ==
    IF colon # 0
    THEN IF /\ Len(parts) <= 2
            /\ ExprOK(SubSeq(parts[1], 1, colon - 1))
            /\ ExprOK(SubSeq(parts[1], colon + 1, Len(parts[1])))
            /\ Len(parts) = 2 => ExprOK(parts[2])
         THEN [Stmt EXCEPT !.type = "AnnAssign"]
         ELSE Bad
    ELSE IF \A i \in 1..Len(parts) : ExprOK(parts[i])
    THEN [Stmt EXCEPT !.type = "Assign",
                      !.targets = [i \in 1..(Len(parts) - 1) |->
                                      IF Len(parts[i]) = 1 THEN parts[i][1] ELSE ""]]
    ELSE Bad

assign_parts(parts) == assign_of(parts, top_index(parts[1], ":", 1, 0, ""))

assign_stmt(t) == assign_parts(split_assign(t))

\* a statement whose value is one string literal (a docstring when first)
is_string_literal(t) ==
    /\ Len(t) >= 2
    /\ t[1] \in Quotes
    /\ t[Len(t)] = t[1]
    /\ \A i \in 2..(Len(t) - 1) : t[i] # t[1]

\* the statement that the tokens of one line spell
statement(t) ==
    CASE t[1] = "import" -> import_stmt(t)
      [] t[1] = "from" -> import_from_stmt(t)
      [] t[1] = "@" -> IF ExprOK(Tail(t))
                       THEN [Stmt EXCEPT !.type = "Decorator",
                                         !.name = _get_decorator_name(Tail(t))]
                       ELSE Bad
      [] t[1] = "def" -> def_stmt(t, "FunctionDef")
      [] t[1] = "async" -> IF Len(t) >= 2 /\ t[2] = "def"
                           THEN def_stmt(Tail(t), "AsyncFunctionDef")
                           ELSE Bad
      [] t[1] = "class" -> class_stmt(t)
      [] t[1] \in {"if", "while", "for", "try", "except"} ->
             header_stmt(t, HeaderType(t[1]), t[1] \in {"if", "while", "for"})
      [] t[1] \in {"return", "raise"} ->
             IF Len(t) = 1 \/ ExprOK(Tail(t)) THEN [Stmt EXCEPT !.type = "Return"] ELSE Bad
      [] t[1] = "pass" -> IF Len(t) = 1 THEN [Stmt EXCEPT !.type = "Pass"] ELSE Bad
      [] t[1] = "assert" -> IF ExprOK(Tail(t)) THEN [Stmt EXCEPT !.type = "Assert"] ELSE Bad
      [] OTHER ->
             IF top_index(t, "=", 1, 0, "") # 0 \/ top_index(t, ":", 1, 0, "") # 0
             THEN assign_stmt(t)
             ELSE IF ExprOK(t) THEN [Stmt EXCEPT !.is_str = is_string_literal(t)]
             ELSE Bad

SyntaxError(lineno, msg) == [ok |-> FALSE, lineno |-> lineno, msg |-> msg, body |-> <<>>, next |-> 0]

IsDef(type) == type \in {"FunctionDef", "AsyncFunctionDef", "ClassDef"}

\* the statements of one block: those of ll from i on at indentation ind.
\* prev is the type of the statement before at this level, decs the
\* decorators waiting for their definition.
RECURSIVE suite(_, _, _, _, _)

\* the node of the statement st
ast_node(st, lineno, end_lineno, decs, has_docstring, methods) ==
    [type |-> st.type, name |-> st.name, names |-> st.names, module |-> st.module,
     module_toks |-> st.module_toks, level |-> st.level, args |-> st.args,
     bases |-> st.bases, targets |-> st.targets, lineno |-> lineno,
     end_lineno |-> end_lineno, decorator_list |-> decs, is_str |-> st.is_str,
     has_docstring |-> has_docstring, methods |-> methods]

\* node, and then the statements that rest holds
prepend(node, rest) ==
    IF rest.ok THEN [rest EXCEPT !.body = <<node>> \o rest.body] ELSE rest

\* the names of the functions that a class body defines
method_names(body) ==
    SelectSeq([k \in 1..Len(body) |->
                  IF body[k].type \in {"FunctionDef", "AsyncFunctionDef"}
                  THEN body[k].name ELSE ""],
              LAMBDA n : n # "")

\* a compound statement st with its body inl on the same line
suite_inline(ll, i, ind, decs, st, inl) ==
    IF ~inl.ok \/ inl.compound THEN SyntaxError(ll[i].lineno, "invalid syntax")
    ELSE prepend(ast_node(st, ll[i].lineno, ll[i].lineno, decs, inl.is_str,
                          IF inl.type \in {"FunctionDef", "AsyncFunctionDef"}
                          THEN <<inl.name>> ELSE <<>>),
                 suite(ll, i + 1, ind, st.type, <<>>))

\* a compound statement st with the block blk of the lines below it
suite_block(ll, i, ind, decs, st, blk) ==
    IF ~blk.ok THEN blk
    ELSE prepend(ast_node(st, ll[i].lineno, ll[blk.next - 1].lineno, decs,
                          blk.body # <<>> /\ blk.body[1].is_str, method_names(blk.body)),
                 suite(ll, blk.next, ind, st.type, <<>>))

\* the statement st of line i
suite_statement(ll, i, ind, prev, decs, st) ==
    IF ~st.ok THEN SyntaxError(ll[i].lineno, "invalid syntax")
    ELSE IF decs # <<>> /\ ~IsDef(st.type) /\ st.type # "Decorator"
    THEN SyntaxError(ll[i].lineno, "invalid syntax")
    ELSE IF \/ prev = "Try" /\ st.type # "Except"
            \/ st.type = "Except" /\ prev \notin {"Try", "Except"}
    THEN SyntaxError(ll[i].lineno, "invalid syntax")
    ELSE IF st.type = "Decorator"
    THEN suite(ll, i + 1, ind, st.type, Append(decs, st.name))
    ELSE IF st.compound /\ st.inline # <<>>
    THEN suite_inline(ll, i, ind, decs, st, statement(st.inline))
    ELSE IF st.compound
    THEN IF i < Len(ll) /\ ll[i + 1].indent > ind
         THEN suite_block(ll, i, ind, decs, st,
                          suite(ll, i + 1, ll[i + 1].indent, "", <<>>))
         ELSE SyntaxError(ll[i].lineno + 1, "expected an indented block")
    ELSE prepend(ast_node(st, ll[i].lineno, ll[i].lineno, decs, FALSE, <<>>),
                 suite(ll, i + 1, ind, st.type, <<>>))

suite(ll, i, ind, prev, decs) ==
    IF i > Len(ll) \/ ll[i].indent < ind
    THEN IF prev = "Try" \/ decs # <<>>
         THEN SyntaxError(IF i > Len(ll) THEN ll[Len(ll)].lineno + 1 ELSE ll[i].lineno,
                          "invalid syntax")
         ELSE [ok |-> TRUE, lineno |-> 0, msg |-> "", body |-> <<>>, next |-> i]
    ELSE IF ll[i].indent > ind THEN SyntaxError(ll[i].lineno, "unexpected indent")
    ELSE suite_statement(ll, i, ind, prev, decs, statement(ll[i].toks))

\* ast.parse(code): [ok, body] or the SyntaxError [ok = FALSE, lineno, msg]
ast_parse(code) == suite(logical_lines(split_lines(code), 1), 1, 0, "", <<>>)

(***************************************************************************)
(* CodeComponent, PythonComponentParser                                    *)
(***************************************************************************)
\* ComponentType
IMPORT == "import"
CLASS == "class"
FUNCTION == "function"
CONSTANT_T == "constant"
TYPE_DEF == "type_def"
DECORATOR == "decorator"
MAIN == "main"
OTHER_T == "other"
ComponentType == {IMPORT, CLASS, FUNCTION, CONSTANT_T, TYPE_DEF, DECORATOR, MAIN, OTHER_T}

\* The fields dependencies and score of the dataclass are left out: the
\* merger writes dependencies and never reads either.
CodeComponent(type, name, code, source_model, metadata) ==
    [type |-> type, name |-> name, code |-> code, source_model |-> source_model,
     metadata |-> metadata]

\* metadata={} of the dataclass default
NoMetadata == [x \in {} |-> FALSE]

\* dict.get(key): None (falsy) when the key is missing
metadata_get(metadata, key) ==
    IF key \in DOMAIN metadata THEN metadata[key] ELSE FALSE

\* str.isupper() on the identifiers of the vocabulary
UpperNames == {"MAX_SIZE", "MAX", "DEBUG", "A", "B", "API_URL"}
isupper(name) == name \in UpperNames

\* ', '.join(a.name for a in node.names)
alias_names(names) == join(<<",", SP>>, [i \in 1..Len(names) |-> names[i].toks])

\* lines[node.lineno - 1 : node.end_lineno] joined by line breaks
_get_source(node, lines) ==
    join(<<NL>>, SubSeq(lines, node.lineno, node.end_lineno))

\* the first target of an assignment that is an upper-case Name, "" if none
RECURSIVE first_upper(_)
first_upper(targets) ==
    IF targets = <<>> THEN ""
    ELSE IF Head(targets) # "" /\ isupper(Head(targets)) THEN Head(targets)
    ELSE first_upper(Tail(targets))

\* the component of a top-level node, <<>> for None
_node_to_component(node, lines, source_model) ==
    IF node.type = "Import"
    THEN <<CodeComponent(IMPORT, node.names[1].name,
                         <<"import", SP>> \o alias_names(node.names),
                         source_model, NoMetadata)>>
    ELSE IF node.type = "ImportFrom"
    THEN <<CodeComponent(IMPORT,
                         (IF node.module = "" THEN "None" ELSE node.module)
                             \o "." \o node.names[1].name,
                         (IF node.module_toks = <<>> THEN <<"from", "  ", "import", SP>>
                          ELSE <<"from", SP>> \o node.module_toks \o <<SP, "import", SP>>)
                             \o alias_names(node.names),
                         source_model, NoMetadata)>>
    ELSE IF node.type \in {"FunctionDef", "AsyncFunctionDef"}
    THEN <<CodeComponent(FUNCTION, node.name, _get_source(node, lines), source_model,
                         [args |-> node.args,
                          is_async |-> node.type = "AsyncFunctionDef",
                          decorators |-> node.decorator_list,
                          has_docstring |-> node.has_docstring])>>
    ELSE IF node.type = "ClassDef"
    THEN <<CodeComponent(CLASS, node.name, _get_source(node, lines), source_model,
                         [bases |-> node.bases,
                          methods |-> node.methods,
                          has_docstring |-> node.has_docstring])>>
    ELSE IF node.type = "Assign" /\ first_upper(node.targets) # ""
    THEN <<CodeComponent(CONSTANT_T, first_upper(node.targets), _get_source(node, lines),
                         source_model, NoMetadata)>>
    ELSE <<>>

RECURSIVE components_of(_, _, _)
components_of(body, lines, source_model) ==
    IF body = <<>> THEN <<>>
    ELSE _node_to_component(Head(body), lines, source_model)
             \o components_of(Tail(body), lines, source_model)

\* a SyntaxError answered with no component
components_or_none(tree, code, source_model) ==
    IF ~tree.ok THEN <<>> ELSE components_of(tree.body, split_lines(code), source_model)

\* tree is what ast.parse makes of code, a SyntaxError included
components_of_tree(tree, code, source_model) ==
    IF ~tree.ok
    THEN <<CodeComponent(OTHER_T, "unparsed", code, source_model, NoMetadata)>>
    ELSE components_of(tree.body, split_lines(code), source_model)

PythonComponentParser_parse(code, source_model) ==
    components_of_tree(ast_parse(code), code, source_model)

\* the token at position i, "" past the end
At(s, i) == IF i \in 1..Len(s) THEN s[i] ELSE ""

\* the first position from i on that holds no white space
skip_ws(s, i) ==
    LET inked == SelectSeq(Indices(s), LAMBDA j : j >= i /\ ~IsSpace(s[j]))
    IN  IF i > Len(s) THEN i
        ELSE IF inked = <<>> THEN Len(s) + 1
        ELSE inked[1]

\* re.match of (async\s+)?def\s+(\w+)\s*\(([^)]*)\) : group 2, "" if no match
def_pattern(code) ==
    LET d == IF At(code, 1) = "async" /\ IsSpace(At(code, 2)) THEN skip_ws(code, 2) ELSE 1
        n == skip_ws(code, d + 1)
        p == skip_ws(code, n + 1)
    IN  IF /\ At(code, d) = "def"
           /\ IsSpace(At(code, d + 1))
           /\ At(code, n) # ""
           /\ IsWord(At(code, n))
           /\ At(code, p) = "("
           /\ IndexFrom(code, ")", p + 1) # 0
        THEN code[n]
        ELSE ""

\* re.match of class\s+(\w+) : group 1, "" if no match
class_pattern(code) ==
    LET n == skip_ws(code, 2)
    IN  IF /\ At(code, 1) = "class"
           /\ IsSpace(At(code, 2))
           /\ At(code, n) # ""
           /\ IsWord(At(code, n))
        THEN code[n]
        ELSE ""

\* CodeComponent.signature: the tokens of the signature string
signature(comp) ==
    IF comp.type = FUNCTION /\ def_pattern(comp.code) # ""
    THEN <<"func:" \o def_pattern(comp.code)>>
    ELSE IF comp.type = CLASS /\ class_pattern(comp.code) # ""
    THEN <<"class:" \o class_pattern(comp.code)>>
    ELSE IF comp.type = IMPORT
    THEN <<"import:">> \o strip(comp.code)
    ELSE <<comp.type \o ":" \o comp.name>>

(***************************************************************************)
(* QualityScorer                                                           *)
(***************************************************************************)
CRITERIA == [correctness |-> 20, structure |-> 20, performance |-> 15,
             best_practices |-> 20, documentation |-> 15, testing |-> 10]

\* the words of the vocabulary that contain pat as a substring
WordsWith(pat) ==
    CASE pat = "for" -> {"for", "format"}
      [] pat = "in" -> {"in", "int", "print", "min", "__init__", "items", "string"}
      [] pat = "async" -> {"async", "asyncio"}
      [] pat = "assert" -> {"assert", "assertEqual"}
      [] pat = "return" -> {"return", "returns"}
      [] pat = "range" -> {"range", "arrange"}
      [] pat = "len" -> {"len"}
      [] OTHER -> {pat}

\* pat in code, for a pattern that is one word
contains(code, pat) == \E i \in 1..Len(code) : code[i] \in WordsWith(pat)

\* code.count('def ')
count_def(code) ==
    Cardinality({i \in 1..Len(code) : code[i] = "def" /\ At(code, i + 1) \in Blanks})

\* re.search of for.*in.*range.*len\( : within one line
range_len_line(ln) ==
    \E f \in 1..Len(ln) :
        /\ ln[f] \in WordsWith("for")
        /\ \E i \in (f + 1)..Len(ln) :
               /\ ln[i] \in WordsWith("in")
               /\ \E r \in (i + 1)..Len(ln) :
                      /\ ln[r] \in WordsWith("range")
                      /\ \E l \in (r + 1)..Len(ln) :
                             ln[l] \in WordsWith("len") /\ At(ln, l + 1) = "("

any_range_len(lines) == \E k \in 1..Len(lines) : range_len_line(lines[k])

range_len_pattern(code) == any_range_len(split_lines(code))

\* '"""' in code or "'''" in code: three quote characters in a row
triple_quoted(code) ==
    \/ Has(code, "\"\"\"")
    \/ Has(code, "'''")
    \/ HasRun(code, <<"\"", "\"", "\"">>)
    \/ HasRun(code, <<"'", "'", "'">>)

\* re.match of ^[a-z_][a-z0-9_]*$ on the names of the vocabulary
SnakeCaseNames == {"add", "f", "g", "x", "foo", "process_data", "test_add", "hello",
                   "my_function", "create_user", "unparsed", "os", "my_class"}
\* re.match of ^[A-Z][a-zA-Z0-9]*$ on the names of the vocabulary
PascalCaseNames == {"MyClass", "User", "A", "B", "MAX", "DEBUG"}
\* 'test' in name.lower() on the names of the vocabulary
TestNames == {"test_add", "TestAdd"}

Min(a, b) == IF a <= b THEN a ELSE b
Max(a, b) == IF a >= b THEN a ELSE b

\* the ast.parse of score: no import line is parsed; tree.ok is false on a
\* SyntaxError
try_parse(component) ==
    IF component.type # IMPORT THEN ast_parse(component.code) ELSE [ok |-> TRUE, msg |-> ""]

correctness_score(tree) == IF ~tree.ok THEN 5 ELSE 15 + 5

structure_score(component) ==
    LET code == component.code
        lines == Count(code, NL) + 1
        structure ==
            IF component.type = FUNCTION
            THEN 10 + (IF lines < 30 THEN 5 ELSE IF lines > 100 THEN -5 ELSE 0)
                    + (IF count_def(code) <= 1 THEN 3 ELSE 0)
                    + (IF contains(code, "return") THEN 2 ELSE 0)
            ELSE IF component.type = CLASS
            THEN 10 + (IF Has(code, "__init__") THEN 5 ELSE 0)
                    + (IF count_def(code) > 1 THEN 3 ELSE 0)
            ELSE 10
    IN  Min(structure, 20)

performance_score(component) ==
    LET code == component.code
        sleep == HasRun(code, <<"time", ".", "sleep">>) /\ ~contains(code, "async")
        concat == HasRun(code, <<"+", SP, "\"", "\"">>) \/ HasRun(code, <<"+", SP, "'", "'">>)
        penalty == (IF sleep THEN 3 ELSE 0) + (IF range_len_pattern(code) THEN 2 ELSE 0)
                     + (IF concat THEN 2 ELSE 0)
    IN  Max(10 - penalty, 0)

\* ': ' in code and '->' in code
type_hints(code) ==
    /\ \E i \in 1..Len(code) : code[i] = ":" /\ At(code, i + 1) \in Blanks
    /\ Has(code, "->")

\* the score of best practices of a component whose text has no type hints
best_practices_unhinted(component) ==
    Min(10 + (IF component.type = CONSTANT_T /\ isupper(component.name) THEN 3 ELSE 0)
           + (IF component.type = FUNCTION /\ component.name \in SnakeCaseNames
              THEN 3 ELSE 0)
           + (IF component.type = CLASS /\ component.name \in PascalCaseNames
              THEN 3 ELSE 0),
        20)

best_practices_score(component) ==
    LET code == component.code
        best_practices ==
            10 + (IF type_hints(code) THEN 5 ELSE 0)
               + (IF component.type = CONSTANT_T /\ isupper(component.name) THEN 3 ELSE 0)
               + (IF component.type = FUNCTION /\ component.name \in SnakeCaseNames
                  THEN 3 ELSE 0)
               + (IF component.type = CLASS /\ component.name \in PascalCaseNames
                  THEN 3 ELSE 0)
    IN  Min(best_practices, 20)

\* the points of documentation with no cap on them
documentation_uncapped(component) ==
    5 + (IF triple_quoted(component.code) THEN 8 ELSE 0)
      + (IF Has(component.code, "#") THEN 2 ELSE 0)
      + (IF metadata_get(component.metadata, "has_docstring") THEN 2 ELSE 0)

documentation_score(component) ==
    LET code == component.code
        documentation ==
            5 + (IF triple_quoted(code) THEN 8 ELSE 0)
              + (IF Has(code, "#") THEN 2 ELSE 0)
              + (IF metadata_get(component.metadata, "has_docstring") THEN 2 ELSE 0)
    IN  Min(documentation, 15)

testing_score(component) ==
    LET code == component.code
        testing ==
            3 + (IF HasRun(code, <<"try", ":">>) \/ contains(code, "except") THEN 4 ELSE 0)
              + (IF contains(code, "raise") THEN 2 ELSE 0)
              + (IF contains(code, "assert") \/ component.name \in TestNames THEN 3 ELSE 0)
    IN  Min(testing, 10)

issues_of(component, tree) ==
    LET code == component.code
    IN  (IF ~tree.ok THEN <<"Syntax error: " \o tree.msg>> ELSE <<>>)
        \o (IF component.type = FUNCTION /\ Count(code, NL) + 1 > 100
            THEN <<"Function too long (>100 lines)">> ELSE <<>>)
        \o (IF HasRun(code, <<"time", ".", "sleep">>) /\ ~contains(code, "async")
            THEN <<"Blocking sleep in sync code">> ELSE <<>>)
        \o (IF range_len_pattern(code)
            THEN <<"Using range(len()) instead of enumerate">> ELSE <<>>)
        \o (IF component.type = FUNCTION /\ component.name \notin SnakeCaseNames
            THEN <<"Function name not snake_case">> ELSE <<>>)
        \o (IF component.type = CLASS /\ component.name \notin PascalCaseNames
            THEN <<"Class name not PascalCase">> ELSE <<>>)

\* QualityScorer.score
ScoredComponent(component, scores, issues) ==
    [component |-> component,
     scores |-> scores,
     total_score |-> scores.correctness + scores.structure + scores.performance
                       + scores.best_practices + scores.documentation + scores.testing,
     issues |-> issues]

score_parsed(component, tree) ==
    ScoredComponent(component,
                    [correctness |-> correctness_score(tree),
                     structure |-> structure_score(component),
                     performance |-> performance_score(component),
                     best_practices |-> best_practices_score(component),
                     documentation |-> documentation_score(component),
                     testing |-> testing_score(component)],
                    issues_of(component, tree))

score(component) == score_parsed(component, try_parse(component))

(***************************************************************************)
(* ComponentGrouper                                                        *)
(***************************************************************************)
\* a dict in insertion order: a sequence of [sig, members]
\* the new key put before the keys that are there
groups_prepend(groups, sig, comp) ==
    IF \A k \in 1..Len(groups) : groups[k].sig # sig
    THEN <<[sig |-> sig, members |-> <<comp>>]>> \o groups
    ELSE [k \in 1..Len(groups) |->
             IF groups[k].sig = sig
             THEN [groups[k] EXCEPT !.members = Append(@, comp)]
             ELSE groups[k]]

\* groups[sig].append(comp)
groups_append(groups, sig, comp) ==
    IF \A k \in 1..Len(groups) : groups[k].sig # sig
    THEN Append(groups, [sig |-> sig, members |-> <<comp>>])
    ELSE [k \in 1..Len(groups) |->
             IF groups[k].sig = sig
             THEN [groups[k] EXCEPT !.members = Append(@, comp)]
             ELSE groups[k]]

RECURSIVE group_loop(_, _)
group_loop(components, groups) ==
    IF components = <<>> THEN groups
    ELSE group_loop(Tail(components),
                    groups_append(groups, signature(Head(components)), Head(components)))

group(components) == group_loop(components, <<>>)

\* a sort that puts an entry before the entries of the same key
RECURSIVE insert_before_equal(_, _)
insert_before_equal(sorted, x) ==
    IF sorted = <<>> THEN <<x>>
    ELSE IF Head(sorted)[2] > x[2]
    THEN <<Head(sorted)>> \o insert_before_equal(Tail(sorted), x)
    ELSE <<x>> \o sorted

\* list.sort(key=..., reverse=True): stable, the larger key first; an entry
\* goes behind every entry whose key is not smaller
RECURSIVE insert_desc(_, _)
insert_desc(sorted, x) ==
    IF sorted = <<>> THEN <<x>>
    ELSE IF Head(sorted)[2] >= x[2] THEN <<Head(sorted)>> \o insert_desc(Tail(sorted), x)
    ELSE <<x>> \o sorted

RECURSIVE sort_desc(_, _)
sort_desc(items, sorted) ==
    IF items = <<>> THEN sorted
    ELSE sort_desc(Tail(items), insert_desc(sorted, Head(items)))

find_best(members) ==
    IF Len(members) = 1 THEN members[1]
    ELSE LET scored == [k \in 1..Len(members) |->
                           <<members[k], score(members[k]).total_score>>]
         IN  sort_desc(scored, <<>>)[1][1]

(***************************************************************************)
(* CodeMerger                                                              *)
(***************************************************************************)
OfType(components, types) == SelectSeq(components, LAMBDA c : c.type \in types)

\* the loop with its test turned round: an import is kept when it was seen
RECURSIVE seen_imports_loop(_, _, _)
seen_imports_loop(imports, seen_imports, unique_imports) ==
    IF imports = <<>> THEN unique_imports
    ELSE IF sub_ws(strip(Head(imports).code)) \in seen_imports
    THEN seen_imports_loop(Tail(imports), seen_imports,
                           Append(unique_imports, Head(imports)))
    ELSE seen_imports_loop(Tail(imports),
                           seen_imports \cup {sub_ws(strip(Head(imports).code))},
                           unique_imports)

RECURSIVE unique_imports_loop(_, _, _)
unique_imports_loop(imports, seen_imports, unique_imports) ==
    IF imports = <<>> THEN unique_imports
    ELSE LET imp == Head(imports)
             normalized == sub_ws(strip(imp.code))
         IN  IF normalized \notin seen_imports
             THEN unique_imports_loop(Tail(imports), seen_imports \cup {normalized},
                                      Append(unique_imports, imp))
             ELSE unique_imports_loop(Tail(imports), seen_imports, unique_imports)

\* The order of Python strings on the tokens that import lines are made of:
\* the tokens in code point order.  A longer run of blanks comes first
\* because a word follows the shorter one.
TokenOrder == <<"        ", "    ", "  ", " ", "*", ",", ".", "FastAPI", "HTTPException",
                "List", "Optional", "as", "fastapi", "from", "import", "json", "np",
                "numpy", "os", "path", "sys", "typing", "x", "y", "z">>
TokenRank(t) == IF \E k \in 1..Len(TokenOrder) : TokenOrder[k] = t
                THEN CHOOSE k \in 1..Len(TokenOrder) : TokenOrder[k] = t
                ELSE Len(TokenOrder) + 1

\* a < b for two lines
RECURSIVE str_less(_, _)
str_less(a, b) ==
    IF b = <<>> THEN FALSE
    ELSE IF a = <<>> THEN TRUE
    ELSE IF Head(a) = Head(b) THEN str_less(Tail(a), Tail(b))
    ELSE TokenRank(Head(a)) < TokenRank(Head(b))

RECURSIVE insert_sorted(_, _)
insert_sorted(sorted, x) ==
    IF sorted = <<>> THEN <<x>>
    ELSE IF str_less(x, Head(sorted)) THEN <<x>> \o sorted
    ELSE <<Head(sorted)>> \o insert_sorted(Tail(sorted), x)

\* sorted() left out of the import section: the lines in iteration order
RECURSIVE unsorted_lines(_, _)
unsorted_lines(items, sorted) ==
    IF items = <<>> THEN sorted
    ELSE unsorted_lines(Tail(items), Append(sorted, Head(items)))

\* sorted(iterable) of strings
RECURSIVE sorted_lines(_, _)
sorted_lines(items, sorted) ==
    IF items = <<>> THEN sorted
    ELSE sorted_lines(Tail(items), insert_sorted(sorted, Head(items)))

\* the enumerations of a set: the orders in which iterating a set of str
\* can yield its elements (the hash of a str changes from process to process)
Iterations(S) ==
    {f \in [1..Cardinality(S) -> S] : \A x \in S : \E k \in 1..Cardinality(S) : f[k] = x}

\* str.split(): the fields between runs of white space
RECURSIVE fields(_, _)
fields(s, cur) ==
    IF s = <<>> THEN (IF cur = <<>> THEN <<>> ELSE <<cur>>)
    ELSE IF IsSpace(Head(s))
         THEN (IF cur = <<>> THEN <<>> ELSE <<cur>>) \o fields(Tail(s), <<>>)
    ELSE fields(Tail(s), Append(cur, Head(s)))

STDLIB == {"os", "sys", "re", "json", "time", "datetime", "typing", "pathlib",
           "collections", "functools", "asyncio"}

\* not i.startswith('from ') or i.split()[1].split('.')[0] in STDLIB
is_stdlib(i) ==
    \/ ~(At(i, 1) = "from" /\ At(i, 2) \in Blanks)
    \/ LET field == fields(i, <<>>)[2]
       IN  field[1] # "." /\ field[1] \in STDLIB

\* the sections of the imports; iteration is the order in which the set of
\* the import lines is iterated
import_sections(unique_imports, iteration) ==
    LET import_lines == sorted_lines(iteration, <<>>)
        stdlib == SelectSeq(import_lines, is_stdlib)
        third_party == SelectSeq(import_lines, LAMBDA i : ~is_stdlib(i))
    IN  (IF stdlib # <<>> THEN <<join(<<NL>>, stdlib)>> ELSE <<>>)
        \o (IF third_party # <<>> THEN <<join(<<NL>>, third_party)>> ELSE <<>>)

Codes(components) == [k \in 1..Len(components) |-> components[k].code]

\* the set that _merge_python builds of the import lines
import_line_set(components) ==
    LET unique_imports == unique_imports_loop(OfType(components, {IMPORT}), {}, <<>>)
    IN  {strip(unique_imports[k].code) : k \in 1..Len(unique_imports)}

_merge_python(components, iteration) ==
    LET imports == OfType(components, {IMPORT})
        constants == OfType(components, {CONSTANT_T})
        classes == OfType(components, {CLASS})
        functions == OfType(components, {FUNCTION})
        main == OfType(components, {MAIN})
        other == OfType(components, ComponentType \ {IMPORT, CONSTANT_T, CLASS, FUNCTION, MAIN})
        unique_imports == unique_imports_loop(imports, {}, <<>>)
        sections ==
            (IF unique_imports # <<>> THEN import_sections(unique_imports, iteration)
             ELSE <<>>)
            \o (IF constants # <<>> THEN <<join(<<NL>>, Codes(constants))>> ELSE <<>>)
            \o Codes(classes)
            \o Codes(functions)
            \o Codes(other)
            \o (IF main # <<>> THEN <<join(<<NL>>, Codes(main))>> ELSE <<>>)
    IN  join(<<NL, NL, NL>>, sections)

\* CodeMerger.merge
CodeMerger_merge(components, language, iteration) ==
    IF language = "python" THEN _merge_python(components, iteration)
    ELSE join(<<NL, NL>>, Codes(components))

(***************************************************************************)
(* SyntaxValidator                                                         *)
(***************************************************************************)
\* tree is what ast.parse makes of the code, a SyntaxError included
validity(tree) ==
    IF tree.ok THEN [is_valid |-> TRUE, errors |-> <<>>]
    ELSE [is_valid |-> FALSE, errors |-> <<<<"Line", tree.lineno, tree.msg>>>>]

_validate_python(code) == validity(ast_parse(code))

validate(code, language) ==
    IF language = "python" THEN _validate_python(code)
    ELSE [is_valid |-> strip(code) # <<>>, errors |-> <<>>]

(***************************************************************************)
(* ConsensusMerger helpers                                                 *)
(***************************************************************************)
\* the order table of _order_by_dependency; order.get(type, 99)
order_key(type) ==
    CASE type = IMPORT -> 0
      [] type = CONSTANT_T -> 1
      [] type = TYPE_DEF -> 2
      [] type = CLASS -> 3
      [] type = FUNCTION -> 4
      [] type = DECORATOR -> 5
      [] type = MAIN -> 6
      [] type = OTHER_T -> 7
      [] OTHER -> 99

\* sorted(..., key=...): stable, the smaller key first
RECURSIVE insert_by_key(_, _)
insert_by_key(sorted, c) ==
    IF sorted = <<>> THEN <<c>>
    ELSE IF order_key(Head(sorted).type) <= order_key(c.type)
         THEN <<Head(sorted)>> \o insert_by_key(Tail(sorted), c)
    ELSE <<c>> \o sorted

RECURSIVE sort_by_key(_, _)
sort_by_key(components, sorted) ==
    IF components = <<>> THEN sorted
    ELSE sort_by_key(Tail(components), insert_by_key(sorted, Head(components)))

_order_by_dependency(components) == sort_by_key(components, <<>>)

\* re.sub of ,\s*\) by ) : a comma, white space, a closing parenthesis
fix_trailing_comma(code) ==
    LET commas == SelectSeq(Indices(code),
                            LAMBDA i : code[i] = "," /\ At(code, skip_ws(code, i + 1)) = ")")
        kept == SelectSeq(Indices(code),
                          LAMBDA i : \A c \in 1..Len(commas) :
                                        ~(commas[c] <= i /\ i < skip_ws(code, commas[c] + 1)))
    IN  [j \in 1..Len(kept) |-> code[kept[j]]]

\* the last quote character of a line, "" when it has none
RECURSIVE last_quote(_)
last_quote(line) ==
    IF line = <<>> THEN ""
    ELSE IF line[Len(line)] \in {"\"", "\"\"\""} THEN "\""
    ELSE IF line[Len(line)] \in {"'", "'''"} THEN "'"
    ELSE last_quote(SubSeq(line, 1, Len(line) - 1))

\* re.sub of (["'])([^"']*?)$ by \1\2\1 with re.MULTILINE: in every line that
\* holds a quote character, the last one is written again at the end
fix_unclosed_string(code) ==
    LET lines == split_lines(code)
    IN  join(<<NL>>, [k \in 1..Len(lines) |->
                         IF last_quote(lines[k]) = "" THEN lines[k]
                         ELSE Append(lines[k], last_quote(lines[k]))])

_attempt_fix(code, errors) == fix_unclosed_string(fix_trailing_comma(code))

\* len(str)
RECURSIVE str_len(_)
str_len(s) ==
    IF s = <<>> THEN 0
    ELSE IF Len(s) = 1 THEN (IF s[1] = FENCE THEN 3 ELSE Len(s[1]))
    ELSE LET half == Len(s) \div 2
         IN  str_len(SubSeq(s, 1, half)) + str_len(SubSeq(s, half + 1, Len(s)))

\* the last of the longest
RECURSIVE max_block_last(_, _)
max_block_last(blocks, best) ==
    IF blocks = <<>> THEN best
    ELSE max_block_last(Tail(blocks),
                        IF str_len(Head(blocks).content) >= str_len(best.content)
                        THEN Head(blocks) ELSE best)

\* max(blocks, key=len of content): the first of the longest
RECURSIVE max_block(_, _)
max_block(blocks, best) ==
    IF blocks = <<>> THEN best
    ELSE max_block(Tail(blocks),
                   IF str_len(Head(blocks).content) > str_len(best.content)
                   THEN Head(blocks) ELSE best)

MergeResult(merged_code, total_score, components_used, merge_log, validation_passed, validation_errors) ==
    [merged_code |-> merged_code, total_score |-> total_score,
     components_used |-> components_used, merge_log |-> merge_log,
     validation_passed |-> validation_passed, validation_errors |-> validation_errors]

\* an empty dict
EmptyDict == [x \in {} |-> ""]
\* d[key] = value
dict_set(d, key, value) == [k \in DOMAIN d \cup {key} |-> IF k = key THEN value ELSE d[k]]

\* a quotient that is not reduced: total / count
Quotient(total, count) == [total |-> total, count |-> count]

RECURSIVE sum_scores(_)
sum_scores(components) ==
    IF components = <<>> THEN 0
    ELSE score(Head(components)).total_score + sum_scores(Tail(components))

\* step 1 of merge: the blocks of every output and the log entries
\* one round of the loop of step 1: blocks are the blocks of model, rest is
\* what the later rounds add
parsed_output(model, blocks, rest) ==
    [blocks |-> blocks \o rest.blocks,
     log |-> <<<<"Parsed", Len(blocks), "blocks from", model>>>> \o rest.log]

RECURSIVE parse_outputs(_)
parse_outputs(outs) ==
    IF outs = <<>> THEN [blocks |-> <<>>, log |-> <<>>]
    ELSE parsed_output(Head(outs).model,
                       CodeBlockParser_parse(Head(outs).output, Head(outs).model),
                       parse_outputs(Tail(outs)))

\* step 2 of merge: the components of the blocks tagged python or text
RECURSIVE parse_blocks(_)
parse_blocks(blocks) ==
    IF blocks = <<>> THEN <<>>
    ELSE (IF Head(blocks).language \in {"python", "text"}
          THEN PythonComponentParser_parse(Head(blocks).content, Head(blocks).source_model)
          ELSE <<>>)
         \o parse_blocks(Tail(blocks))

\* one round of the loop of step 4 that appends nothing to the log
select_one_unlogged(g, best, acc) ==
    [selected |-> Append(acc.selected, best),
     components_used |-> dict_set(acc.components_used, best.name, best.source_model),
     log |-> acc.log]

\* step 4 of merge: the best of every group, the provenance and the log entries
\* one round of the loop of step 4: best is the best of the group g
select_one(g, best, acc) ==
    [selected |-> Append(acc.selected, best),
     components_used |-> dict_set(acc.components_used, best.name, best.source_model),
     log |-> IF Len(g.members) > 1
             THEN Append(acc.log, <<g.sig, "chose", best.source_model, "from",
                                    [k \in 1..Len(g.members) |-> g.members[k].source_model]>>)
             ELSE acc.log]

RECURSIVE select_best(_, _)
select_best(gs, acc) ==
    IF gs = <<>> THEN acc
    ELSE select_best(Tail(gs), select_one(Head(gs), find_best(Head(gs).members), acc))

(***************************************************************************)
(* The texts that the models answer with                                   *)
(***************************************************************************)
Models == {"A", "B"}

\* 'Here is code:\n<fence>python\nimport os\nfrom typing import List\n\nMAX_SIZE = 100\n\n
\*  def add(a: int, b: int) -> int:\n    """Add."""\n    return a + b\n<fence>\n'
annotated_add ==
    <<"Here", " ", "is", " ", "code", ":", NL, FENCE, "python", NL, "import", " ", "os",
      NL, "from", " ", "typing", " ", "import", " ", "List", NL, NL, "MAX_SIZE", " ", "=",
      " ", "100", NL, NL, "def", " ", "add", "(", "a", ":", " ", "int", ",", " ", "b", ":",
      " ", "int", ")", " ", "->", " ", "int", ":", NL, "    ", "\"\"\"", "Add", ".",
      "\"\"\"", NL, "    ", "return", " ", "a", " ", "+", " ", "b", NL, FENCE, NL>>
\* '<fence>python\nimport  os\ndef add(a, b): return a+b\n<fence>'
bare_add ==
    <<FENCE, "python", NL, "import", "  ", "os", NL, "def", " ", "add", "(", "a", ",", " ",
      "b", ")", ":", " ", "return", " ", "a", "+", "b", NL, FENCE>>
\* '<fence>python\nimport os\ndef foo( return 42\n<fence>\n'
broken_def ==
    <<FENCE, "python", NL, "import", " ", "os", NL, "def", " ", "foo", "(", " ", "return",
      " ", "42", NL, FENCE, NL>>
\* 'print(1)\n'
plain_print ==
    <<"print", "(", "1", ")", NL>>
\* '<fence>python\nfrom . import x\nimport numpy as np\n<fence>'
relative_import ==
    <<FENCE, "python", NL, "from", " ", ".", " ", "import", " ", "x", NL, "import", " ",
      "numpy", " ", "as", " ", "np", NL, FENCE>>
\* '<fence>javascript\nfunction f() {}\n<fence>'
javascript_block ==
    <<FENCE, "javascript", NL, "function", " ", "f", "(", ")", " ", "{", "}", NL, FENCE>>
\* '\n'
only_newline ==
    <<NL>>
\* '<fence>py\n@dec\ndef f():\n    return 1\n<fence>\n<fence>python\nclass MyClass:\n
\*      def __init__(self):\n        pass\n<fence>'
two_blocks ==
    <<FENCE, "py", NL, "@", "dec", NL, "def", " ", "f", "(", ")", ":", NL, "    ",
      "return", " ", "1", NL, FENCE, NL, FENCE, "python", NL, "class", " ", "MyClass", ":",
      NL, "    ", "def", " ", "__init__", "(", "self", ")", ":", NL, "        ", "pass",
      NL, FENCE>>
\* '<fence>python\nimport os\n<fence>'
import_os ==
    <<FENCE, "python", NL, "import", " ", "os", NL, FENCE>>
\* '<fence>\nx = "abc"\ndef f(:\n  pass\n<fence>'
untagged_broken ==
    <<FENCE, NL, "x", " ", "=", " ", "\"", "abc", "\"", NL, "def", " ", "f", "(", ":", NL,
      "  ", "pass", NL, FENCE>>
\* 'import os\nfrom fastapi import FastAPI\ndef add(a, b): return a+b'
unfenced_code ==
    <<"import", " ", "os", NL, "from", " ", "fastapi", " ", "import", " ", "FastAPI", NL,
      "def", " ", "add", "(", "a", ",", " ", "b", ")", ":", " ", "return", " ", "a", "+",
      "b">>
\* '<fence>python\ndef add(a, b):\n    try:\n        return a + b\n
\*      except TypeError as e:\n        raise e\n<fence>'
guarded_add ==
    <<FENCE, "python", NL, "def", " ", "add", "(", "a", ",", " ", "b", ")", ":", NL,
      "    ", "try", ":", NL, "        ", "return", " ", "a", " ", "+", " ", "b", NL,
      "    ", "except", " ", "TypeError", " ", "as", " ", "e", ":", NL, "        ",
      "raise", " ", "e", NL, FENCE>>
\* ''
empty_text ==
    <<>>
\* '<fence>python\nimport  os\n<fence>'
import_os_spaced ==
    <<FENCE, "python", NL, "import", "  ", "os", NL, FENCE>>
\* '<fence>python\nimport os\ndef f():\n    import os\n    return 1\n<fence>'
local_import ==
    <<FENCE, "python", NL, "import", " ", "os", NL, "def", " ", "f", "(", ")", ":", NL,
      "    ", "import", " ", "os", NL, "    ", "return", " ", "1", NL, FENCE>>
\* '<fence>python\nMAX_SIZE = 4405\n<fence>\n<fence>python\nMAX_SIZE = 103063\n<fence>'
colliding_constants ==
    <<FENCE, "python", NL, "MAX_SIZE", " ", "=", " ", "4405", NL, FENCE, NL,
      FENCE, "python", NL, "MAX_SIZE", " ", "=", " ", "103063", NL, FENCE>>
\* '<fence>python\nx = "abc\n<fence>'
unclosed_string ==
    <<FENCE, "python", NL, "x", " ", "=", " ", "\"", "abc", NL, FENCE>>
\* 'print(2)'
print_two ==
    <<"print", "(", "2", ")">>
\* '<fence>c++\nint x\n<fence>\n<fence>python\nimport os\n<fence>'
cpp_then_python ==
    <<FENCE, "c", "+", "+", NL, "int", " ", "x", NL, FENCE, NL,
      FENCE, "python", NL, "import", " ", "os", NL, FENCE>>
\* '<fence>python\nMAX: int = 3\nimport os\n<fence>'
annotated_constant ==
    <<FENCE, "python", NL, "MAX", ":", " ", "int", " ", "=", " ", "3", NL, "import", " ",
      "os", NL, FENCE>>
\* '<fence>python\nimport os, sys\n<fence>'
import_os_sys ==
    <<FENCE, "python", NL, "import", " ", "os", ",", " ", "sys", NL, FENCE>>
\* '<fence>TSX\nlet x\n<fence>\n<fence>\n\n<fence>'
upper_tag ==
    <<FENCE, "TSX", NL, "let", " ", "x", NL, FENCE, NL, FENCE, NL, NL, FENCE>>

Texts ==
    {annotated_add, bare_add, broken_def, plain_print, relative_import, javascript_block,
     only_newline, two_blocks, import_os, untagged_broken, unfenced_code, guarded_add,
     empty_text, import_os_spaced, local_import, colliding_constants, unclosed_string,
     cpp_then_python, upper_tag, annotated_constant, import_os_sys}

\* the texts that stand first in a mapping of two origins
FirstTexts == {annotated_add, bare_add, broken_def, relative_import, import_os}

\* the mappings of two origins whose texts have blocks and no components:
\* the longer block first, the longer block second, two blocks of one length
RawInputs ==
    {<<[model |-> m[1], output |-> t[1]], [model |-> m[2], output |-> t[2]]>> :
        m \in {<<"A", "B">>, <<"B", "A">>},
        t \in {<<javascript_block, plain_print>>, <<plain_print, javascript_block>>,
               <<plain_print, print_two>>, <<print_two, plain_print>>}}

\* the mappings merge is called with: one origin, or two origins in either order
Inputs ==
    {<<[model |-> m, output |-> t]>> : m \in {"A"}, t \in Texts}
    \cup {<<[model |-> m[1], output |-> t[1]], [model |-> m[2], output |-> t[2]]>> :
            m \in {<<"A", "B">>, <<"B", "A">>}, t \in FirstTexts \X Texts}
    \cup RawInputs

\* the origin that a merged text is given back under
RemergeModels == {"A"}

Languages == {"python", "javascript"}

\* n empty lines in a function body
filler(n) == [k \in 1..n |-> NL]

\* the empty lines that make a function no shorter than 30 lines, and the
\* ones that make it longer than 100 lines
MediumBody == 30
LongBody == 100

Features == [bare : BOOLEAN, hints : BOOLEAN, doc : BOOLEAN, guard : BOOLEAN,
             note : BOOLEAN, slow : BOOLEAN, medium : BOOLEAN, long : BOOLEAN,
             nested : BOOLEAN, void : BOOLEAN]

\* the text of a function called name, written with the features f that
\* QualityScorer.score looks for:
\*   bare    def name(a, b): return a+b          on one line
\*   hints   def name(a: int, b: int) -> int:
\*   doc         """Add."""
\*   note        # sum
\*   slow        for i in range(len(a)):
\*                   time.sleep(1)
\*                   x = a + ""
\*   nested      def g():
\*                   pass
\*   medium      an empty line                   MediumBody times
\*   long        an empty line                   LongBody times
\*   guard       try: return a + b / except TypeError as e: raise e
\*   void        x = a + b and pass in the place of return a + b and raise e
function_source(name, f) ==
    IF f.bare
    THEN <<"def", " ", name, "(", "a", ",", " ", "b", ")", ":", " ", "return", " ", "a",
           "+", "b">>
         \o (IF f.note THEN <<"  ", "#", " ", "sum">> ELSE <<>>)
    ELSE (IF f.hints
          THEN <<"def", " ", name, "(", "a", ":", " ", "int", ",", " ", "b", ":", " ", "int",
                 ")", " ", "->", " ", "int", ":", NL>>
          ELSE <<"def", " ", name, "(", "a", ",", " ", "b", ")", ":", NL>>)
         \o (IF f.doc THEN <<"    ", "\"\"\"", "Add", ".", "\"\"\"", NL>> ELSE <<>>)
         \o (IF f.note THEN <<"    ", "#", " ", "sum", NL>> ELSE <<>>)
         \o (IF f.slow
             THEN <<"    ", "for", " ", "i", " ", "in", " ", "range", "(", "len", "(", "a",
                    ")", ")", ":", NL,
                    "        ", "time", ".", "sleep", "(", "1", ")", NL,
                    "        ", "x", " ", "=", " ", "a", " ", "+", " ", "\"", "\"", NL>>
             ELSE <<>>)
         \o (IF f.nested
             THEN <<"    ", "def", " ", "g", "(", ")", ":", NL, "        ", "pass", NL>>
             ELSE <<>>)
         \o (IF f.medium THEN filler(MediumBody) ELSE <<>>)
         \o (IF f.long THEN filler(LongBody) ELSE <<>>)
         \o (LET last == IF f.void THEN <<"x", " ", "=", " ", "a", " ", "+", " ", "b">>
                         ELSE <<"return", " ", "a", " ", "+", " ", "b">>
                 handler == IF f.void THEN <<"pass">> ELSE <<"raise", " ", "e">>
             IN  IF f.guard
                 THEN <<"    ", "try", ":", NL, "        ">> \o last
                      \o <<NL, "    ", "except", " ", "TypeError", " ", "as", " ", "e", ":",
                           NL, "        ">> \o handler
                 ELSE <<"    ">> \o last)

\* a text that is one fenced python block
fenced(code) == <<FENCE, "python", NL>> \o code \o <<NL, FENCE>>

\* the names of the functions that are graded, and the pairs of names that
\* two origins give to their functions
FunctionNames == {"add", "Add", "test_add"}
NamePairs == {<<n, n>> : n \in FunctionNames} \cup {<<"Add", "test_add">>}

Plain == [bare |-> FALSE, hints |-> FALSE, doc |-> FALSE, guard |-> FALSE, note |-> FALSE,
          slow |-> FALSE, medium |-> FALSE, long |-> FALSE, nested |-> FALSE,
          void |-> FALSE]
Bare == [Plain EXCEPT !.bare = TRUE]
Rich == [Plain EXCEPT !.hints = TRUE, !.doc = TRUE, !.guard = TRUE]

\* the ways a function is written in the texts that are graded
BareStyles == {Bare, [Bare EXCEPT !.note = TRUE]}
Styles ==
    BareStyles
    \cup {Plain, [Plain EXCEPT !.hints = TRUE], [Plain EXCEPT !.doc = TRUE],
          [Plain EXCEPT !.guard = TRUE], [Plain EXCEPT !.hints = TRUE, !.doc = TRUE],
          [Plain EXCEPT !.hints = TRUE, !.doc = TRUE, !.medium = TRUE, !.nested = TRUE,
                        !.void = TRUE],
          Rich, [Rich EXCEPT !.note = TRUE],
          [Rich EXCEPT !.slow = TRUE],
          [Rich EXCEPT !.medium = TRUE, !.nested = TRUE, !.void = TRUE],
          [Rich EXCEPT !.medium = TRUE, !.nested = TRUE, !.void = TRUE, !.slow = TRUE],
          [Rich EXCEPT !.long = TRUE],
          [Rich EXCEPT !.long = TRUE, !.nested = TRUE, !.void = TRUE, !.slow = TRUE]}

\* the mappings that are also merged with language="javascript"
JavascriptInputs ==
    {<<[model |-> "A", output |-> t]>> : t \in {javascript_block, two_blocks, annotated_add}}
    \cup {<<[model |-> "A", output |-> bare_add], [model |-> "B", output |-> annotated_add]>>}

\* the mappings whose functions are graded against each other: a function
\* written in any way by one origin and a one-line function by another, the
\* one-line function before the function written with most care, the
\* annotated add and the bare add in either order, and texts of the other kinds
GradedInputs ==
    {<<[model |-> "A", output |-> fenced(function_source(n[1], s[1]))],
       [model |-> "B", output |-> fenced(function_source(n[2], s[2]))]>> :
        n \in NamePairs, s \in Styles \X BareStyles}
    \cup {<<[model |-> "B", output |-> fenced(function_source(n, s))],
            [model |-> "A", output |-> fenced(function_source(n, Rich))]>> :
            n \in FunctionNames, s \in BareStyles}
    \cup {<<[model |-> m[1], output |-> t[1]], [model |-> m[2], output |-> t[2]]>> :
            m \in {<<"A", "B">>, <<"B", "A">>},
            t \in {<<annotated_add, bare_add>>, <<bare_add, annotated_add>>}}
    \cup {<<[model |-> "A", output |-> t]>> :
            t \in {two_blocks, relative_import, broken_def, untagged_broken,
                   javascript_block, empty_text}}

\* the calls of merge that one run of the program makes
MaxCalls == 2

(***************************************************************************)
(* validator.py: select_validator, should_escalate                         *)
(***************************************************************************)
\* frozenset(primary_models)
frozenset(xs) == {xs[i] : i \in 1..Len(xs)}

VALIDATOR_SELECTION ==
    ({"claude-code", "codex"} :> "gemini")
        @@ ({"gemini", "claude-code"} :> "codex")
        @@ ({"codex", "grok"} :> "claude-code")
        @@ ({"grok", "claude-code"} :> "codex")
        @@ ({"gemini", "codex"} :> "claude-code")
        @@ ({"gemini", "grok"} :> "claude-code")

all_models == <<"claude-code", "codex", "gemini", "grok">>

\* a validator that falls back on claude-code without a look at the primaries
select_validator_unchecked(primary_models) ==
    IF frozenset(primary_models) \in DOMAIN VALIDATOR_SELECTION
    THEN VALIDATOR_SELECTION[frozenset(primary_models)]
    ELSE "claude-code"

\* the default of select_validator: available is the list of the known models
\* that are no primaries
default_validator(available) ==
    IF available # <<>>
    THEN IF \E i \in 1..Len(available) : available[i] = "claude-code"
         THEN "claude-code"
         ELSE available[1]
    ELSE "claude-code"

select_validator(primary_models) ==
    IF frozenset(primary_models) \in DOMAIN VALIDATOR_SELECTION
    THEN VALIDATOR_SELECTION[frozenset(primary_models)]
    ELSE default_validator(SelectSeq(all_models,
                                     LAMBDA m : m \notin frozenset(primary_models)))

\* the fields of a ValidationResult that should_escalate reads; confidence is
\* in hundredths
ValidationResult(confidence, analyses, concerns, summary) ==
    [confidence |-> confidence, analyses |-> analyses, concerns |-> concerns,
     summary |-> summary]

\* the fields of an OutputAnalysis that should_escalate reads, with its key
\* in ValidationResult.analyses
OutputAnalysis(model, issues, merge_worthy) ==
    [model |-> model, issues |-> issues, merge_worthy |-> merge_worthy]

\* CONFIDENCE_THRESHOLD = 0.90, in hundredths
CONFIDENCE_THRESHOLD == 90

ESCALATION_TRIGGERS ==
    <<"security", "vulnerability", "unsafe", "critical", "dangerous", "injection",
      "authentication", "authorization", "password", "secret", "key", "token",
      "production", "database", "delete", "drop">>

\* the words of the vocabulary that hold a trigger inside them
Within == {<<"key", "monkey">>, <<"token", "tokens">>}

\* t in all_text, all_text a text of words
trigger_in(t, all_text) ==
    \E i \in 1..Len(all_text) : all_text[i] = t \/ <<t, all_text[i]>> \in Within

\* str.lower() of a text
lower_text(text) == [i \in 1..Len(text) |-> lower(text[i])]

\* the reasons of the loop over result.analyses.items()
issue_reasons(analyses) ==
    [i \in 1..Len(SelectSeq(analyses, LAMBDA a : a.issues # <<>>)) |->
        <<SelectSeq(analyses, LAMBDA a : a.issues # <<>>)[i].model, "has",
          Len(SelectSeq(analyses, LAMBDA a : a.issues # <<>>)[i].issues),
          "critical issues">>]

\* the triggers found in all_text
triggered_in(all_text) ==
    SelectSeq(ESCALATION_TRIGGERS, LAMBDA t : trigger_in(t, all_text))

reasons_of(result, triggered) ==
    (IF result.confidence < CONFIDENCE_THRESHOLD
     THEN <<<<"Validator confidence", result.confidence, "below threshold",
              CONFIDENCE_THRESHOLD>>>>
     ELSE <<>>)
    \o (IF result.concerns # <<>>
        THEN <<<<"Validator flagged", Len(result.concerns), "concerns">>>>
        ELSE <<>>)
    \o issue_reasons(result.analyses)
    \o (IF triggered # <<>> THEN <<<<"Security-sensitive keywords:", triggered>>>> ELSE <<>>)
    \o (IF SelectSeq(result.analyses, LAMBDA a : a.merge_worthy) = <<>>
        THEN <<<<"No outputs deemed merge-worthy">>>>
        ELSE <<>>)

\* a return that forgets the reasons
escalation_by_confidence(reasons, result) ==
    [should_escalate |-> result.confidence < CONFIDENCE_THRESHOLD, reasons |-> reasons]

\* return len(reasons) > 0, reasons
escalation_of(reasons, result) ==
    [should_escalate |-> Len(reasons) > 0, reasons |-> reasons]

should_escalate(result) ==
    escalation_of(
        reasons_of(result,
                   triggered_in(lower_text(result.summary)
                                    \o lower_text(join(<<SP>>, result.concerns)))),
        result)

\* no call of should_escalate yet
NoValidation == ValidationResult(0, <<>>, <<>>, <<>>)
NoEscalation == [should_escalate |-> FALSE, reasons |-> <<>>]

(***************************************************************************)
(* orchestrate.py: MultiModelOrchestrator                                  *)
(***************************************************************************)
\* the fields of a ModelOutput that _merge_consensus reads
ModelOutput(model, code, points) == [model |-> model, code |-> code, score |-> points]

\* analyze_task, by the category that the key words of the task give:
\* [primary_models, validator]
analyze_task(category) ==
    CASE category = "frontend" ->
            [primary_models |-> <<"gemini", "claude-code">>, validator |-> "codex"]
      [] category = "backend" ->
            [primary_models |-> <<"claude-code", "codex">>, validator |-> "gemini"]
      [] category = "devops" ->
            [primary_models |-> <<"codex", "grok">>, validator |-> "claude-code"]
      [] category = "scripts" ->
            [primary_models |-> <<"codex", "gemini">>, validator |-> "claude-code"]
      [] category = "architecture" ->
            [primary_models |-> <<"grok", "claude-code">>, validator |-> "codex"]
      [] category = "data" ->
            [primary_models |-> <<"codex", "claude-code">>, validator |-> "gemini"]
      [] OTHER ->
            [primary_models |-> <<"claude-code", "codex">>, validator |-> "gemini"]

\* the names that orchestrate submits, in the order of the submits
submitted(route) == Append(route.primary_models, route.validator)

\* sorted(self.outputs, key=lambda x: x.score, reverse=True)[0]: the sort is
\* stable, so of the outputs with the highest score it is the first
best_of(outputs) ==
    outputs[CHOOSE i \in 1..Len(outputs) :
                /\ \A j \in 1..Len(outputs) : outputs[j].score <= outputs[i].score
                /\ \A j \in 1..(i - 1) : outputs[j].score < outputs[i].score]

consensus_of(outputs, best_output) ==
    [code |-> best_output.code,
     explanation |-> <<"Consensus from", Len(outputs), "models (best:", best_output.model>>,
     quality_score |-> best_output.score,
     models_used |-> [i \in 1..Len(outputs) |-> outputs[i].model]]

_merge_consensus(outputs) ==
    IF outputs = <<>>
    THEN [code |-> <<"#", SP, "No outputs from models">>,
          explanation |-> <<"No model outputs received">>]
    ELSE consensus_of(outputs, best_of(outputs))

\* no call of orchestrate has returned
NoConsensus == [code |-> <<>>, explanation |-> <<>>]

(***************************************************************************)
(* grok_client.py: GrokClient._request_with_retry                          *)
(***************************************************************************)
\* what self._session.request gives: a response, or an exception of requests
Response(status_code, retry_after, body) ==
    [status_code |-> status_code, retry_after |-> retry_after, body |-> body,
     exception |-> ""]
Raises(exception) ==
    [status_code |-> 0, retry_after |-> "", body |-> "", exception |-> exception]

\* the values of a Retry-After header that int() takes
IntegerTexts == {"0", "2", "30"}

\* how a round of the loop ends: "return", "raise", "continue", or "fall" off
\* the end of the body; error is the exception raised, last_error the one kept
Round(step, error, last_error) == [step |-> step, error |-> error, last_error |-> last_error]

\* response.status_code == 429
rate_limited(response, attempt, max_retries, last_error) ==
    IF response.retry_after # "" /\ response.retry_after \notin IntegerTexts
    THEN Round("raise", "ValueError", last_error)
    ELSE IF attempt < max_retries
    THEN Round("continue", "", last_error)
    ELSE Round("raise", "GrokRateLimitError", last_error)

\* response.status_code == 200: self._parse_response(response.json())
parsed(response, last_error) ==
    IF response.body = "json" THEN Round("return", "", last_error)
    ELSE IF response.body = "no choices" THEN Round("raise", "GrokError", last_error)
    ELSE Round("raise", "JSONDecodeError", last_error)

\* one round of the loop of _request_with_retry on what the request gave
round(response, attempt, max_retries, last_error) ==
    IF response.exception \in {"Timeout", "ConnectionError"}
    THEN Round(IF attempt < max_retries THEN "continue" ELSE "fall", "", "GrokError")
    ELSE IF response.status_code = 200 THEN parsed(response, last_error)
    ELSE IF response.status_code = 429
    THEN rate_limited(response, attempt, max_retries, last_error)
    ELSE IF response.status_code \in {401, 403}
    THEN Round("raise", "GrokAuthError", last_error)
    ELSE IF response.status_code >= 500 /\ attempt < max_retries
    THEN Round("continue", "", last_error)
    ELSE Round("raise", "GrokError", last_error)

\* how a call ended
Returned == [ended |-> "returned", error |-> ""]
Raised(error) == [ended |-> "raised", error |-> error]
Running == [ended |-> "", error |-> ""]

(***************************************************************************)
(* progress.py: OpenClawProgress                                           *)
(***************************************************************************)
\* self.throttle_ms, in units of time
throttle_ms == 2

\* the tasks that call emit, one event each
MaxEmits == 3
Tasks == 1..MaxEmits

\* the clock stops here
MaxClock == 9

(***************************************************************************)
(* ConsensusMerger.merge, step by step                                     *)
(***************************************************************************)
VARIABLES
    outputs,          \* the dict of the call, in insertion order: <<[model, output]>>
    language,         \* the target language of the call
    pc,               \* where the call is
    merge_log,
    components_used,
    all_blocks,
    unique_blocks,
    all_components,
    groups,
    selected,
    ordered,
    merged_code,
    is_valid,
    errors,
    result,           \* the MergeResult returned, <<>> before the return
    kind,             \* how the call was made: "first", "repeat", "remerge"
    history,          \* the calls before this one: <<[outputs, language, result, ordered]>>
    suspended         \* the local variables of the call of another thread, which waits

\* validator.py: the arguments and the values returned of the last calls
VARIABLES
    primary_models,     \* the argument of select_validator
    validator_model,    \* what select_validator returned, "" before a call
    validation_result,  \* the ValidationResult given to should_escalate
    escalation          \* what should_escalate returned: [should_escalate, reasons]

validator_vars == <<primary_models, validator_model, validation_result, escalation>>

\* orchestrate.py: a MultiModelOrchestrator and the call of orchestrate on it
VARIABLES
    self_outputs,      \* self.outputs
    futures,           \* the futures of the call, in the order of the submits:
                       \* <<[model, result]>>, result <<>> for None
    pending,           \* the futures that as_completed has not given yet
    orchestrator_pc,   \* "idle", "collect", "merge", "done"
    consensus,         \* what _merge_consensus returned
    orchestrations     \* the calls of orchestrate so far

orchestrator_vars ==
    <<self_outputs, futures, pending, orchestrator_pc, consensus, orchestrations>>

\* grok_client.py: a GrokClient and the call of _request_with_retry on it
VARIABLES
    max_retries,     \* self.max_retries
    attempt,         \* the loop variable
    last_error,      \* "" for None
    responses,       \* what the requests of the call gave, in order
    client_pc,       \* "idle", "loop", "done"
    outcome          \* how the call ended

client_vars == <<max_retries, attempt, last_error, responses, client_pc, outcome>>

\* progress.py: an OpenClawProgress with batch_events, and the tasks of one
\* event loop that call emit on it
VARIABLES
    clock,          \* datetime.now().timestamp() * 1000, in units of time
    _last_send,     \* self._last_send
    _pending,       \* self._pending
    _lock,          \* self._lock: the task that holds it, then the tasks that
                    \* wait for it, first come first
    tasks,          \* where each task is in emit, and when its sleep ends
    emitted,        \* the calls of emit, in order: <<[progress, time, after]>>,
                    \* after the number of messages sent before the call
    sent            \* the calls of _send_message, in order: <<[time, events]>>

progress_vars == <<clock, _last_send, _pending, _lock, tasks, emitted, sent>>

\* the variables of the modules that ConsensusMerger.merge does not touch
modules == <<validator_vars, orchestrator_vars, client_vars, progress_vars>>

merger_vars == <<outputs, language, pc, merge_log, components_used, all_blocks,
                 unique_blocks, all_components, groups, selected, ordered, merged_code,
                 is_valid, errors, result, kind, history, suspended>>

vars == <<merger_vars, modules>>

\* the value of result while no call has returned
NoResult == MergeResult(<<>>, Quotient(0, 1), EmptyDict, <<>>, FALSE, <<>>)

\* what is known of a call once it has returned
CallRecord ==
    [outputs |-> outputs, language |-> language, result |-> result, ordered |-> ordered,
     kind |-> kind]

\* the local variables of the call that runs
Frame ==
    [outputs |-> outputs, language |-> language, pc |-> pc, merge_log |-> merge_log,
     components_used |-> components_used, all_blocks |-> all_blocks,
     unique_blocks |-> unique_blocks, all_components |-> all_components, groups |-> groups,
     selected |-> selected, ordered |-> ordered, merged_code |-> merged_code,
     is_valid |-> is_valid, errors |-> errors, result |-> result, kind |-> kind]

Init ==
    /\ outputs = <<>>
    /\ language = "python"
    /\ pc = "idle"
    /\ merge_log = <<>>
    /\ components_used = EmptyDict
    /\ all_blocks = <<>>
    /\ unique_blocks = <<>>
    /\ all_components = <<>>
    /\ groups = <<>>
    /\ selected = <<>>
    /\ ordered = <<>>
    /\ merged_code = <<>>
    /\ is_valid = FALSE
    /\ errors = <<>>
    /\ result = NoResult
    /\ kind = "first"
    /\ history = <<>>
    /\ suspended = Frame
    /\ primary_models = <<>>
    /\ validator_model = ""
    /\ validation_result = NoValidation
    /\ escalation = NoEscalation
    /\ self_outputs = <<>>
    /\ futures = <<>>
    /\ pending = {}
    /\ orchestrator_pc = "idle"
    /\ consensus = NoConsensus
    /\ orchestrations = 0
    /\ max_retries = 0
    /\ attempt = 0
    /\ last_error = ""
    /\ responses = <<>>
    /\ client_pc = "idle"
    /\ outcome = Running
    /\ clock = throttle_ms
    /\ _last_send = 0
    /\ _pending = <<>>
    /\ _lock = <<>>
    /\ tasks = [t \in Tasks |-> [pc |-> "idle", wake |-> 0]]
    /\ emitted = <<>>
    /\ sent = <<>>

\* an entry of merge that goes on with the log of the call before, as if
\* the log were kept in the merger
EnterWithOldLog(outs, lang) ==
    /\ outputs' = outs
    /\ language' = lang
    /\ pc' = "blocks"
    /\ components_used' = EmptyDict
    /\ all_blocks' = <<>>
    /\ unique_blocks' = <<>>
    /\ all_components' = <<>>
    /\ groups' = <<>>
    /\ selected' = <<>>
    /\ ordered' = <<>>
    /\ merged_code' = <<>>
    /\ is_valid' = FALSE
    /\ errors' = <<>>
    /\ result' = NoResult
    /\ UNCHANGED <<merge_log, suspended, modules>>

\* the entry of merge: merge_log = [], components_used = {}
Enter(outs, lang) ==
    /\ outputs' = outs
    /\ language' = lang
    /\ pc' = "blocks"
    /\ merge_log' = <<>>
    /\ components_used' = EmptyDict
    /\ all_blocks' = <<>>
    /\ unique_blocks' = <<>>
    /\ all_components' = <<>>
    /\ groups' = <<>>
    /\ selected' = <<>>
    /\ ordered' = <<>>
    /\ merged_code' = <<>>
    /\ is_valid' = FALSE
    /\ errors' = <<>>
    /\ result' = NoResult
    /\ UNCHANGED <<suspended, modules>>

\* merger.merge(outputs, language=lang), the first call of the run
Call ==
    /\ pc = "idle"
    /\ \E outs \in Inputs, lang \in Languages :
          /\ lang = "javascript" => outs \in JavascriptInputs
          /\ Enter(outs, lang)
    /\ kind' = "first"
    /\ UNCHANGED history

\* the same call once more, with the identical mapping
Repeat ==
    /\ pc = "done"
    /\ Len(history) + 1 < MaxCalls
    /\ Enter(outputs, language)
    /\ kind' = "repeat"
    /\ history' = Append(history, CallRecord)

\* the merged text of the call before, merged again as the text of a single origin
ReMerge ==
    /\ pc = "done"
    /\ Len(history) + 1 < MaxCalls
    /\ \E model \in RemergeModels :
          Enter(<<[model |-> model, output |-> result.merged_code]>>, language)
    /\ kind' = "remerge"
    /\ history' = Append(history, CallRecord)

\* 1. Parse code blocks from all outputs
ParseOutputs ==
    /\ pc = "blocks"
    /\ \E pa \in {parse_outputs(outputs)} :
           /\ all_blocks' = pa.blocks
           /\ merge_log' = merge_log \o pa.log
    /\ pc' = "dedup"
    /\ UNCHANGED <<outputs, language, components_used, unique_blocks, all_components,
                   groups, selected, ordered, merged_code, is_valid, errors, result, kind,
                   history, suspended, modules>>

\* Deduplicate blocks
Deduplicate ==
    /\ pc = "dedup"
    /\ unique_blocks' = deduplicate(all_blocks)
    /\ merge_log' = Append(merge_log, <<"After dedup:", Len(unique_blocks'), "unique blocks">>)
    /\ pc' = "components"
    /\ UNCHANGED <<outputs, language, components_used, all_blocks, all_components, groups,
                   selected, ordered, merged_code, is_valid, errors, result, kind, history,
                   suspended, modules>>

\* 2. Parse components from Python blocks
ParseComponents ==
    /\ pc = "components"
    /\ all_components' = parse_blocks(unique_blocks)
    /\ merge_log' = Append(merge_log, <<"Parsed", Len(all_components'), "components">>)
    /\ pc' = IF all_components' = <<>> THEN "fallback" ELSE "group"
    /\ UNCHANGED <<outputs, language, components_used, all_blocks, unique_blocks, groups,
                   selected, ordered, merged_code, is_valid, errors, result, kind, history,
                   suspended, modules>>

\* No parseable components - use best raw block
ReturnRaw ==
    /\ pc = "fallback"
    /\ unique_blocks # <<>>
    /\ \E best_block \in {max_block(unique_blocks, unique_blocks[1])} :
           result' = MergeResult(best_block.content, Quotient(50, 1),
                         dict_set(EmptyDict, "raw", best_block.source_model),
                         Append(merge_log, <<"Using raw block (no parseable components)">>),
                         TRUE, <<>>)
    /\ pc' = "done"
    /\ UNCHANGED <<outputs, language, merge_log, components_used, all_blocks, unique_blocks,
                   all_components, groups, selected, ordered, merged_code, is_valid, errors,
                   kind, history, suspended, modules>>

\* neither components nor blocks
ReturnNoCode ==
    /\ pc = "fallback"
    /\ unique_blocks = <<>>
    /\ result' = MergeResult(<<>>, Quotient(0, 1), EmptyDict,
                     Append(merge_log, <<"No code found">>), FALSE, <<<<"No code to merge">>>>)
    /\ pc' = "done"
    /\ UNCHANGED <<outputs, language, merge_log, components_used, all_blocks, unique_blocks,
                   all_components, groups, selected, ordered, merged_code, is_valid, errors,
                   kind, history, suspended, modules>>

\* 3. Group similar components
Group ==
    /\ pc = "group"
    /\ groups' = group(all_components)
    /\ merge_log' = Append(merge_log, <<"Grouped into", Len(groups'), "component groups">>)
    /\ pc' = "select"
    /\ UNCHANGED <<outputs, language, components_used, all_blocks, unique_blocks,
                   all_components, selected, ordered, merged_code, is_valid, errors, result,
                   kind, history, suspended, modules>>

\* 4. Select best from each group
SelectBest ==
    /\ pc = "select"
    /\ \E sel \in {select_best(groups, [selected |-> <<>>,
                                           components_used |-> components_used,
                                           log |-> merge_log])} :
           /\ selected' = sel.selected
           /\ components_used' = sel.components_used
           /\ merge_log' = sel.log
    /\ pc' = "order"
    /\ UNCHANGED <<outputs, language, all_blocks, unique_blocks, all_components, groups,
                   ordered, merged_code, is_valid, errors, result, kind, history,
                   suspended, modules>>

\* 5. Order components by dependency
Order ==
    /\ pc = "order"
    /\ ordered' = _order_by_dependency(selected)
    /\ pc' = "assemble"
    /\ UNCHANGED <<outputs, language, merge_log, components_used, all_blocks, unique_blocks,
                   all_components, groups, selected, merged_code, is_valid, errors, result,
                   kind, history, suspended, modules>>

\* 6. Merge into final code; the set of import lines is iterated in any order
Assemble ==
    /\ pc = "assemble"
    /\ \E iteration \in Iterations(import_line_set(ordered)) :
          merged_code' = CodeMerger_merge(ordered, language, iteration)
    /\ pc' = "validate"
    /\ UNCHANGED <<outputs, language, merge_log, components_used, all_blocks, unique_blocks,
                   all_components, groups, selected, ordered, is_valid, errors, result, kind,
                   history, suspended, modules>>

\* 7. Validate syntax
Validate ==
    /\ pc = "validate"
    /\ \E v \in {validate(merged_code, language)} :
           /\ is_valid' = v.is_valid
           /\ errors' = v.errors
           /\ pc' = IF v.is_valid THEN "return" ELSE "fix"
    /\ UNCHANGED <<outputs, language, merge_log, components_used, all_blocks, unique_blocks,
                   all_components, groups, selected, ordered, merged_code, result, kind,
                   history, suspended, modules>>

\* the repair without the validation that follows it
AttemptFixUnvalidated ==
    /\ pc = "fix"
    /\ merge_log' = Append(merge_log, <<"Validation failed:", errors>>)
    /\ merged_code' = _attempt_fix(merged_code, errors)
    /\ pc' = "return"
    /\ UNCHANGED <<outputs, language, components_used, all_blocks, unique_blocks,
                   all_components, groups, selected, ordered, is_valid, errors, result, kind,
                   history, suspended, modules>>

\* Try to fix common issues, and validate again
AttemptFix ==
    /\ pc = "fix"
    /\ merge_log' = Append(merge_log, <<"Validation failed:", errors>>)
    /\ merged_code' = _attempt_fix(merged_code, errors)
    /\ \E v \in {validate(merged_code', language)} :
           /\ is_valid' = v.is_valid
           /\ errors' = v.errors
    /\ pc' = "return"
    /\ UNCHANGED <<outputs, language, components_used, all_blocks, unique_blocks,
                   all_components, groups, selected, ordered, result, kind, history,
                   suspended, modules>>

\* 8. Calculate total score, and return
Return ==
    /\ pc = "return"
    /\ result' = MergeResult(merged_code,
                     IF selected # <<>> THEN Quotient(sum_scores(selected), Len(selected))
                     ELSE Quotient(0, 1),
                     components_used, merge_log, is_valid, errors)
    /\ pc' = "done"
    /\ UNCHANGED <<outputs, language, merge_log, components_used, all_blocks, unique_blocks,
                   all_components, groups, selected, ordered, merged_code, is_valid, errors,
                   kind, history, suspended, modules>>

\* merger.merge(outputs) on the mappings that are graded
CallGraded ==
    /\ pc = "idle"
    /\ \E outs \in GradedInputs : Enter(outs, "python")
    /\ kind' = "first"
    /\ UNCHANGED history

Next ==
    \/ Call
    \/ Repeat
    \/ ReMerge
    \/ ParseOutputs
    \/ Deduplicate
    \/ ParseComponents
    \/ ReturnRaw
    \/ ReturnNoCode
    \/ Group
    \/ SelectBest
    \/ Order
    \/ Assemble
    \/ Validate
    \/ AttemptFix
    \/ Return

Spec == Init /\ [][Next]_vars

\* one call of merge on a mapping whose functions are graded
NextGraded ==
    \/ CallGraded
    \/ ParseOutputs
    \/ Deduplicate
    \/ ParseComponents
    \/ ReturnRaw
    \/ ReturnNoCode
    \/ Group
    \/ SelectBest
    \/ Order
    \/ Assemble
    \/ Validate
    \/ AttemptFix
    \/ Return

SpecGraded == Init /\ [][NextGraded]_vars

(***************************************************************************)
(* Calls of merge by two threads on one ConsensusMerger                    *)
(***************************************************************************)
\* the mappings that the threads call merge with
ThreadInputs ==
    {<<[model |-> "A", output |-> bare_add], [model |-> "B", output |-> annotated_add]>>,
     <<[model |-> "A", output |-> untagged_broken]>>,
     <<[model |-> "A", output |-> import_os]>>,
     <<[model |-> "A", output |-> plain_print]>>,
     <<[model |-> "A", output |-> empty_text]>>}

\* the calls that the two threads make together
MaxThreadCalls == 3

\* a thread calls merge, for the first time or after its call before has
\* returned
CallInThread ==
    /\ pc \in {"idle", "done"}
    /\ Len(history) < MaxThreadCalls
    /\ \E outs \in ThreadInputs : Enter(outs, "python")
    /\ kind' = "first"
    /\ history' = Append(history, CallRecord)

\* the interpreter switches threads: the call that runs waits with its local
\* variables as they are, and the call that waited runs on; merge assigns
\* no attribute of self, so there is nothing that the two calls share
Switch ==
    /\ suspended' = Frame
    /\ outputs' = suspended.outputs
    /\ language' = suspended.language
    /\ pc' = suspended.pc
    /\ merge_log' = suspended.merge_log
    /\ components_used' = suspended.components_used
    /\ all_blocks' = suspended.all_blocks
    /\ unique_blocks' = suspended.unique_blocks
    /\ all_components' = suspended.all_components
    /\ groups' = suspended.groups
    /\ selected' = suspended.selected
    /\ ordered' = suspended.ordered
    /\ merged_code' = suspended.merged_code
    /\ is_valid' = suspended.is_valid
    /\ errors' = suspended.errors
    /\ result' = suspended.result
    /\ kind' = suspended.kind
    /\ UNCHANGED <<history, modules>>

NextThreads ==
    \/ CallInThread
    \/ Switch
    \/ ParseOutputs
    \/ Deduplicate
    \/ ParseComponents
    \/ ReturnRaw
    \/ ReturnNoCode
    \/ Group
    \/ SelectBest
    \/ Order
    \/ Assemble
    \/ Validate
    \/ AttemptFix
    \/ Return

SpecThreads == Init /\ [][NextThreads]_vars

(***************************************************************************)
(* ComponentGrouper.group called with a list of components                 *)
(***************************************************************************)
\* the components that PythonComponentParser makes of the bare add of
\* origin A and of the annotated add of origin B
ParsedParts ==
    LET components ==
            parse_blocks(parse_outputs(<<[model |-> "A", output |-> bare_add],
                                         [model |-> "B", output |-> annotated_add]>>).blocks)
    IN  {components[k] : k \in 1..Len(components)}

\* components that are built as test_merger_scoring builds them, the text
\* written by hand:
\*   '\ndef add(a, b): return a+b\n' / 'import  os' / 'class add: pass'
BuiltParts ==
    {CodeComponent(FUNCTION, "add",
                   <<NL, "def", " ", "add", "(", "a", ",", " ", "b", ")", ":", " ",
                     "return", " ", "a", "+", "b", NL>>, "B", NoMetadata),
     CodeComponent(IMPORT, "os", <<"import", "  ", "os">>, "B", NoMetadata),
     CodeComponent(CLASS, "add", <<"class", " ", "add", ":", " ", "pass">>, "A", NoMetadata)}

\* the longest list that the grouper is given
MaxGrouped == 3

GroupedLists ==
    UNION {{cs \in [1..n -> ParsedParts \cup BuiltParts] :
               \A i, j \in 1..n : i # j => cs[i] # cs[j]} : n \in 0..MaxGrouped}

\* grouper.group(components) on a list of components
GiveToGrouper ==
    /\ pc = "idle"
    /\ \E cs \in GroupedLists : all_components' = cs
    /\ pc' = "group"
    /\ UNCHANGED <<outputs, language, merge_log, components_used, all_blocks, unique_blocks,
                   groups, selected, ordered, merged_code, is_valid, errors, result, kind,
                   history, suspended, modules>>

NextGrouper ==
    \/ GiveToGrouper
    \/ Group

SpecGrouper == Init /\ [][NextGrouper]_vars

(***************************************************************************)
(* CodeMerger.merge called with a list of components                       *)
(***************************************************************************)
\* a component of every ComponentType, and a second function:
\*   import os / MAX = 1 / Id = int / class C: pass / def f(): pass /
\*   def g(): pass / @dec / main() / x =
Parts ==
    {CodeComponent(IMPORT, "os", <<"import", " ", "os">>, "A", NoMetadata),
     CodeComponent(CONSTANT_T, "MAX", <<"MAX", " ", "=", " ", "1">>, "A", NoMetadata),
     CodeComponent(TYPE_DEF, "Id", <<"Id", " ", "=", " ", "int">>, "A", NoMetadata),
     CodeComponent(CLASS, "C", <<"class", " ", "C", ":", " ", "pass">>, "A", NoMetadata),
     CodeComponent(FUNCTION, "f", <<"def", " ", "f", "(", ")", ":", " ", "pass">>, "A",
                   NoMetadata),
     CodeComponent(FUNCTION, "g", <<"def", " ", "g", "(", ")", ":", " ", "pass">>, "B",
                   NoMetadata),
     CodeComponent(DECORATOR, "dec", <<"@", "dec">>, "A", NoMetadata),
     CodeComponent(MAIN, "main", <<"main", "(", ")">>, "A", NoMetadata),
     CodeComponent(OTHER_T, "unparsed", <<"x", " ", "=">>, "B", NoMetadata)}

\* the longest list that the assembler is given
MaxParts == 3

\* the lists of different components
ComponentLists ==
    UNION {{cs \in [1..n -> Parts] : \A i, j \in 1..n : i # j => cs[i] # cs[j]} :
             n \in 0..MaxParts}

\* a list of selected components is ordered and assembled for python:
\* code_merger.merge(self._order_by_dependency(selected), "python")
GiveComponents ==
    /\ pc = "idle"
    /\ \E cs \in ComponentLists : selected' = cs
    /\ language' = "python"
    /\ pc' = "order"
    /\ UNCHANGED <<outputs, merge_log, components_used, all_blocks, unique_blocks,
                   all_components, groups, ordered, merged_code, is_valid, errors, result,
                   kind, history, suspended, modules>>

NextAssembler ==
    \/ GiveComponents
    \/ Order
    \/ Assemble

SpecAssembler == Init /\ [][NextAssembler]_vars

(***************************************************************************)
(* Calls of select_validator and should_escalate                           *)
(***************************************************************************)
\* the most primaries of a call
MaxPrimaries == 4

\* the names a caller gives: the four known models and one that is not known
CandidateModels == {"claude-code", "codex", "gemini", "grok", "grok-3"}

PrimaryLists == UNION {[1..n -> CandidateModels] : n \in 0..MaxPrimaries}

SelectValidator ==
    /\ \E pm \in PrimaryLists :
          /\ primary_models' = pm
          /\ validator_model' = select_validator(pm)
    /\ UNCHANGED <<validation_result, escalation, merger_vars, orchestrator_vars, client_vars, progress_vars>>

NextSelector == SelectValidator

SpecSelector == Init /\ [][NextSelector]_vars

\* confidences of a validator, in hundredths
Confidences == {75, 89, 90, 100}

Summaries ==
    {<<>>, <<"looks", SP, "fine">>, <<"Security", SP, "risk">>, <<"monkey">>}

ConcernLists == {<<>>, <<<<"slow">>>>, <<<<"slow">>, <<"drop", SP, "table">>>>}

\* the analyses of no output, of one, of two
AnalysisLists ==
    {<<>>}
    \cup {<<OutputAnalysis("claude-code", i, w)>> :
            i \in {<<>>, <<"bug">>}, w \in BOOLEAN}
    \cup {<<OutputAnalysis("claude-code", i[1], w[1]), OutputAnalysis("codex", i[2], w[2])>> :
            i \in {<<>>, <<"bug">>} \X {<<>>, <<"bug", "leak">>}, w \in BOOLEAN \X BOOLEAN}

ShouldEscalate ==
    /\ \E c \in Confidences, a \in AnalysisLists, cs \in ConcernLists, s \in Summaries :
          /\ validation_result' = ValidationResult(c, a, cs, s)
          /\ escalation' = should_escalate(validation_result')
    /\ UNCHANGED <<primary_models, validator_model, merger_vars, orchestrator_vars, client_vars, progress_vars>>

NextEscalation == ShouldEscalate

SpecEscalation == Init /\ [][NextEscalation]_vars

(***************************************************************************)
(* MultiModelOrchestrator.orchestrate                                      *)
(***************************************************************************)
\* the calls of orchestrate on one orchestrator
MaxOrchestrations == 2

\* the categories of the tasks given
Categories == {"backend", "devops"}

\* what a model run returns: None, or an output with its score; the validator
\* can score higher than the primaries
Returns(model, route) ==
    {<<>>, <<ModelOutput(model, <<"#", SP, model>>, 60)>>}
    \cup (IF model = route.validator
          THEN {<<ModelOutput(model, <<"#", SP, model>>, 70)>>}
          ELSE {})

\* orchestrate up to the end of the submits: every model of the route is in
\* self.models, so every one is submitted
Submit ==
    /\ orchestrator_pc \in {"idle", "done"}
    /\ orchestrations < MaxOrchestrations
    /\ \E category \in Categories :
          \E names \in {submitted(analyze_task(category))} :
              \E rs \in [1..Len(names) -> UNION {Returns(names[i], analyze_task(category)) :
                                                    i \in 1..Len(names)}] :
                  /\ \A i \in 1..Len(names) :
                        rs[i] \in Returns(names[i], analyze_task(category))
                  /\ futures' = [i \in 1..Len(names) |-> [model |-> names[i], result |-> rs[i]]]
                  /\ pending' = 1..Len(names)
    /\ orchestrator_pc' = "collect"
    /\ orchestrations' = orchestrations + 1
    /\ UNCHANGED <<self_outputs, consensus, merger_vars, validator_vars, client_vars, progress_vars>>

\* one round of the loop over as_completed(futures): a future that is done
\* is given, in the order in which the runs end
Collect ==
    /\ orchestrator_pc = "collect"
    /\ \E f \in pending :
          /\ self_outputs' = self_outputs \o futures[f].result
          /\ pending' = pending \ {f}
          /\ orchestrator_pc' = IF pending' = {} THEN "merge" ELSE "collect"
    /\ UNCHANGED <<futures, consensus, orchestrations, merger_vars, validator_vars, client_vars, progress_vars>>

\* the rest of orchestrate: _run_cross_validation reads self.outputs and
\* changes nothing, then consensus = self._merge_consensus(task)
MergeConsensus ==
    /\ orchestrator_pc = "merge"
    /\ consensus' = _merge_consensus(self_outputs)
    /\ orchestrator_pc' = "done"
    /\ UNCHANGED <<self_outputs, futures, pending, orchestrations, merger_vars,
                   validator_vars, client_vars, progress_vars>>

NextOrchestrator ==
    \/ Submit
    \/ Collect
    \/ MergeConsensus

SpecOrchestrator == Init /\ [][NextOrchestrator]_vars

(***************************************************************************)
(* GrokClient._request_with_retry                                          *)
(***************************************************************************)
\* the most retries a client is made with
MaxRetries == 2

\* what a request can give
Responses ==
    {Response(200, "", "json"), Response(200, "", "html"), Response(200, "", "no choices"),
     Response(429, "", ""), Response(429, "2", ""),
     Response(429, "Wed, 21 Oct 2026 07:28:00 GMT", ""),
     Response(401, "", ""), Response(404, "", ""), Response(503, "", ""),
     Raises("Timeout"), Raises("ConnectionError")}

\* GrokClient(max_retries=n)._request_with_retry(...), up to the loop
RequestWithRetry ==
    /\ client_pc = "idle"
    /\ \E n \in 0..MaxRetries : max_retries' = n
    /\ attempt' = 0
    /\ last_error' = ""
    /\ responses' = <<>>
    /\ client_pc' = "loop"
    /\ outcome' = Running
    /\ UNCHANGED <<merger_vars, validator_vars, orchestrator_vars, progress_vars>>

\* one round of for attempt in range(self.max_retries + 1): a request, and
\* what the body does with what it gives
Request ==
    /\ client_pc = "loop"
    /\ attempt <= max_retries
    /\ \E response \in Responses :
          \E r \in {round(response, attempt, max_retries, last_error)} :
              /\ responses' = Append(responses, response)
              /\ last_error' = r.last_error
              /\ attempt' = IF r.step \in {"continue", "fall"} THEN attempt + 1 ELSE attempt
              /\ client_pc' = IF r.step \in {"continue", "fall"} THEN "loop" ELSE "done"
              /\ outcome' = IF r.step = "return" THEN Returned
                            ELSE IF r.step = "raise" THEN Raised(r.error)
                            ELSE outcome
    /\ UNCHANGED <<max_retries, merger_vars, validator_vars, orchestrator_vars, progress_vars>>

\* the loop is over: raise last_error or GrokError("Request failed after all
\* retries")
RaiseLastError ==
    /\ client_pc = "loop"
    /\ attempt > max_retries
    /\ outcome' = Raised("GrokError")
    /\ client_pc' = "done"
    /\ UNCHANGED <<max_retries, attempt, last_error, responses, merger_vars, validator_vars,
                   orchestrator_vars, progress_vars>>

NextClient ==
    \/ RequestWithRetry
    \/ Request
    \/ RaiseLastError

SpecClient == Init /\ [][NextClient]_vars

(***************************************************************************)
(* OpenClawProgress.emit, called by the tasks of one event loop            *)
(***************************************************************************)
\* time passes
Tick ==
    /\ clock < MaxClock
    /\ clock' = clock + 1
    /\ UNCHANGED <<_last_send, _pending, _lock, tasks, emitted, sent, merger_vars,
                   validator_vars, orchestrator_vars, client_vars>>

\* emit from the moment task t has the lock (lock is self._lock with t at its
\* head) to its end or to its sleep: now is the clock, the event joins
\* self._pending, and either the batch is sent and the lock released, or the
\* task sleeps throttle_ms with the lock held
enter(t, lock) ==
    IF clock - _last_send >= throttle_ms
    THEN /\ sent' = Append(sent, [time |-> clock, events |-> Append(_pending, t)])
         /\ _pending' = <<>>
         /\ _last_send' = clock
         /\ _lock' = Tail(lock)
         /\ tasks' = [tasks EXCEPT ![t] = [pc |-> "done", wake |-> 0]]
    ELSE /\ _pending' = Append(_pending, t)
         /\ _lock' = lock
         /\ tasks' = [tasks EXCEPT ![t] = [pc |-> "sleep", wake |-> clock + throttle_ms]]
         /\ UNCHANGED <<_last_send, sent>>

\* task t calls emit with its event: with the lock free it has the lock at
\* once, otherwise it waits in line for it
Emit ==
    /\ \E t \in Tasks :
          /\ tasks[t].pc = "idle"
          /\ emitted' = Append(emitted, [progress |-> t, time |-> clock, after |-> Len(sent)])
          /\ IF _lock = <<>>
             THEN enter(t, <<t>>)
             ELSE /\ _lock' = Append(_lock, t)
                  /\ tasks' = [tasks EXCEPT ![t] = [pc |-> "acquire", wake |-> 0]]
                  /\ UNCHANGED <<_last_send, _pending, sent>>
    /\ UNCHANGED <<clock, merger_vars, validator_vars, orchestrator_vars, client_vars>>

\* the lock was released and the first task in line has it
Acquire ==
    /\ _lock # <<>>
    /\ tasks[Head(_lock)].pc = "acquire"
    /\ enter(Head(_lock), _lock)
    /\ UNCHANGED <<clock, emitted, merger_vars, validator_vars, orchestrator_vars,
                   client_vars>>

\* the sleep of the task that holds the lock is over: it sends the batch if
\* there is one and releases the lock
Wake ==
    /\ _lock # <<>>
    /\ tasks[Head(_lock)].pc = "sleep"
    /\ clock >= tasks[Head(_lock)].wake
    /\ IF _pending # <<>>
       THEN /\ sent' = Append(sent, [time |-> clock, events |-> _pending])
            /\ _pending' = <<>>
            /\ _last_send' = clock
       ELSE UNCHANGED <<sent, _pending, _last_send>>
    /\ _lock' = Tail(_lock)
    /\ tasks' = [tasks EXCEPT ![Head(_lock)] = [pc |-> "done", wake |-> 0]]
    /\ UNCHANGED <<clock, emitted, merger_vars, validator_vars, orchestrator_vars,
                   client_vars>>

NextProgress ==
    \/ Tick
    \/ Emit
    \/ Acquire
    \/ Wake

SpecProgress == Init /\ [][NextProgress]_vars

(***************************************************************************)
(* Properties of ConsensusMerger.merge                                     *)
(***************************************************************************)
\* the call before the present one
Previous == history[Len(history)]

\* C1: a call of merge with the mapping of the call before it returns the
\* same merged_code and the same components_used, in whatever order the set
\* of import lines is iterated in either call.
Determinism ==
    (pc = "done" /\ kind = "repeat") =>
        /\ result.merged_code = Previous.result.merged_code
        /\ result.components_used = Previous.result.components_used

\* a repeated call of two origins has returned, with an import section of
\* two lines or more
DeterminismWitness ==
    /\ pc = "done"
    /\ kind = "repeat"
    /\ Len(outputs) = 2
    /\ Cardinality(import_line_set(ordered)) >= 2

(***************************************************************************)
(* Properties of QualityScorer.score and ComponentGrouper.find_best        *)
(***************************************************************************)
total(component) == score(component).total_score

ScoreInRange(scored) ==
    /\ \A criterion \in DOMAIN CRITERIA :
           scored.scores[criterion] \in 0..CRITERIA[criterion]
    /\ scored.total_score =
           scored.scores.correctness + scored.scores.structure + scored.scores.performance
             + scored.scores.best_practices + scored.scores.documentation
             + scored.scores.testing
    /\ scored.total_score \in 0..100

\* C2: for every component that a call of merge parses, each of the six
\* sub-scores of score lies between 0 and the weight of its criterion, and
\* total_score is the sum of the sub-scores and lies between 0 and 100.
ScoreBoundedness ==
    \A k \in 1..Len(all_components) : ScoreInRange(score(all_components[k]))

\* the points of documentation of the component go over the cap
OverDocumented(component, scored) ==
    /\ triple_quoted(component.code)
    /\ Has(component.code, "#")
    /\ metadata_get(component.metadata, "has_docstring")
    /\ scored.scores.documentation = CRITERIA.documentation
    /\ scored.scores.correctness = CRITERIA.correctness
    /\ scored.scores.structure = CRITERIA.structure

\* a function is scored that has a docstring and a comment, parses, and is
\* short and whole
ScoreBoundednessWitness ==
    \E k \in 1..Len(all_components) :
        OverDocumented(all_components[k], score(all_components[k]))

\* chosen is the first of the members whose total is totals[k], the largest
FirstMaximum(members, chosen, totals) ==
    \E k \in 1..Len(members) :
        /\ members[k] = chosen
        /\ \A j \in 1..Len(members) : totals[j] <= totals[k]
        /\ \A j \in 1..(k - 1) : totals[j] < totals[k]

totals_of(members) == [j \in 1..Len(members) |-> total(members[j])]

\* C3: once merge has selected, it has selected one component for every
\* group: a member of the group whose total score is the largest of the
\* group and the first of the members that have that score, the only
\* member of a group of one.
Selection ==
    pc \in {"order", "assemble", "validate", "fix", "return"} =>
        /\ Len(selected) = Len(groups)
        /\ \A g \in 1..Len(groups) :
               /\ FirstMaximum(groups[g].members, selected[g], totals_of(groups[g].members))
               /\ Len(groups[g].members) = 1 => selected[g] = groups[g].members[1]

\* the members are two components of one score
Tie(members, totals) ==
    /\ Len(members) = 2
    /\ members[1] # members[2]
    /\ totals[1] = totals[2]

\* merge has selected from a group whose two members have the same score
SelectionWitness ==
    /\ pc = "order"
    /\ \E g \in 1..Len(groups) : Tie(groups[g].members, totals_of(groups[g].members))

(***************************************************************************)
(* A function written with care against a bare one                         *)
(***************************************************************************)
Components == {all_components[k] : k \in 1..Len(all_components)}

Annotated(component) == type_hints(component.code)
Documented(component) == metadata_get(component.metadata, "has_docstring")
Handled(component) ==
    HasRun(component.code, <<"try", ":">>) \/ contains(component.code, "except")

\* a function with neither type hints nor a docstring nor error handling,
\* written on one line
BareFunction(component) ==
    /\ component.type = FUNCTION
    /\ Count(component.code, NL) = 0
    /\ ~Annotated(component)
    /\ ~Documented(component)
    /\ ~Handled(component)

\* a function of at most 100 lines with none of the patterns that score
\* takes points of performance for
Tidy(component) ==
    /\ Count(component.code, NL) + 1 <= 100
    /\ performance_score(component) = 10

\* merge has chosen the function of the origin of component
Chosen(component) ==
    /\ component.name \in DOMAIN result.components_used
    /\ result.components_used[component.name] = component.source_model

normalized(line) == sub_ws(strip(line))

\* the lines of code that are line after normalisation
NormalizedCount(code, line) ==
    Len(SelectSeq(split_lines(code), LAMBDA ln : normalized(ln) = line))

IsImportLine(line) == At(strip(line), 1) \in {"import", "from"}

\* the import lines among lines are pairwise different after normalisation
NoRepeatedImport(lines) ==
    \A i, j \in 1..Len(lines) :
        (i < j /\ IsImportLine(lines[i]) /\ IsImportLine(lines[j])) =>
            normalized(lines[i]) # normalized(lines[j])

\* C5 as it is stated: an import that two origins contribute is in the
\* merged text exactly once, and no two import lines of the merged text
\* are equal after normalisation.
ImportOnce ==
    pc = "validate" =>
        /\ \A a, b \in Components :
               (/\ a.type = IMPORT /\ b.type = IMPORT
                /\ a.source_model # b.source_model
                /\ normalized(a.code) = normalized(b.code)) =>
                   NormalizedCount(merged_code, normalized(a.code)) = 1
        /\ NoRepeatedImport(split_lines(merged_code))

\* the text of the selected components that are not imports
OtherCode == join(<<NL>>, Codes(OfType(ordered, ComponentType \ {IMPORT})))

\* C5: every import statement that an origin contributes is in the merged
\* text exactly once besides the lines of the selected functions, classes,
\* constants and unparsed blocks that repeat it.
ImportOnceInSection ==
    pc = "validate" =>
        \A a \in Components :
            a.type = IMPORT =>
                NormalizedCount(merged_code, normalized(a.code))
                    = 1 + NormalizedCount(OtherCode, normalized(a.code))

\* the text of two origins is assembled, who both contribute one import
ImportOnceInSectionWitness ==
    /\ pc = "validate"
    /\ \E a, b \in Components :
           /\ a.type = IMPORT /\ b.type = IMPORT
           /\ a.source_model # b.source_model
           /\ normalized(a.code) = normalized(b.code)

(***************************************************************************)
(* Blocks that do not parse                                                *)
(***************************************************************************)
Parsed(block) == block.language \in {"python", "text"}
Broken(block) == Parsed(block) /\ ~ast_parse(block.content).ok
Intact(block) == Parsed(block) /\ ast_parse(block.content).ok

\* C6: when the block of one origin does not parse and the block of
\* another origin does, the result of merge is valid.
DegradesGracefully ==
    (/\ pc = "done"
     /\ \E j, k \in 1..Len(unique_blocks) :
            /\ Broken(unique_blocks[j])
            /\ Intact(unique_blocks[k])
            /\ unique_blocks[j].source_model # unique_blocks[k].source_model) =>
        result.validation_passed

\* the component that stands for a block that does not parse
Opaque(block) ==
    CodeComponent(OTHER_T, "unparsed", block.content, block.source_model, NoMetadata)

\* one Opaque component for a block that does not parse, and for any other
\* block the components that the block yields when it is parsed alone
RECURSIVE Decomposition(_)
Decomposition(blocks) ==
    IF blocks = <<>> THEN <<>>
    ELSE (IF Broken(Head(blocks)) THEN <<Opaque(Head(blocks))>>
          ELSE parse_blocks(<<Head(blocks)>>))
         \o Decomposition(Tail(blocks))

BlocksOf(model) == SelectSeq(all_blocks, LAMBDA b : b.source_model = model)

Unfenced(text) == ~Has(text, FENCE)

Outline(components) ==
    [k \in 1..Len(components) |->
        <<components[k].type, components[k].name, components[k].code>>]

\* C9: the merged text of a call, merged again as the text of one origin,
\* gives the same merged text and the same components in the same order.
ReMergeIsNoOp ==
    (pc = "done" /\ kind = "remerge") =>
        /\ result.merged_code = Previous.result.merged_code
        /\ Outline(ordered) = Outline(Previous.ordered)

\* C10: when a block of the call parsed into components, the merged text
\* is valid.
WellFormed ==
    (pc = "done" /\ \E c \in Components : c.type # OTHER_T) => result.validation_passed

(***************************************************************************)
(* CodeBlockParser.deduplicate                                             *)
(***************************************************************************)
\* u is b with some of its elements left out
RECURSIVE Subsequence(_, _)
Subsequence(u, b) ==
    IF u = <<>> THEN TRUE
    ELSE IF b = <<>> THEN FALSE
    ELSE IF Head(u) = Head(b) THEN Subsequence(Tail(u), Tail(b))
    ELSE Subsequence(u, Tail(b))

\* the first of blocks whose normalised content is that of block
FirstLike(blocks, block) ==
    blocks[CHOOSE k \in 1..Len(blocks) :
               /\ normalized(blocks[k].content) = normalized(block.content)
               /\ \A j \in 1..(k - 1) :
                      normalized(blocks[j].content) # normalized(block.content)]

\* the elements of a sequence
Range(s) == {s[k] : k \in 1..Len(s)}

\* C11: the blocks that deduplicate returns are a subsequence of the blocks
\* it is given, no two of them have the same normalised content, the first
\* block of every normalised content of the input is among them, blocks of
\* one normalised content have one key whatever their origin, language and
\* position, and deduplicate returns its own result unchanged.
BlockDedup ==
    pc \in {"components", "group", "fallback"} =>
        /\ Subsequence(unique_blocks, all_blocks)
        /\ \A i, j \in 1..Len(unique_blocks) :
               i # j => normalized(unique_blocks[i].content)
                          # normalized(unique_blocks[j].content)
        /\ \A b \in Range(all_blocks) : FirstLike(all_blocks, b) \in Range(unique_blocks)
        /\ \A a, b \in Range(all_blocks) :
               normalized(a.content) = normalized(b.content) => hash(a) = hash(b)
        /\ deduplicate(unique_blocks) = unique_blocks

(***************************************************************************)
(* The order of the assembled text                                         *)
(***************************************************************************)
\* where sub first stands in text, 0 when it does not
Position(text, sub) ==
    LET hits == {i \in 1..(Len(text) - Len(sub) + 1) :
                    SubSeq(text, i, i + Len(sub) - 1) = sub}
    IN  IF hits = {} THEN 0 ELSE CHOOSE i \in hits : \A j \in hits : i <= j

\* the canonical order of the kinds
KindOrder == <<IMPORT, CONSTANT_T, TYPE_DEF, CLASS, FUNCTION, DECORATOR, MAIN, OTHER_T>>
KindRank(type) == CHOOSE k \in 1..Len(KindOrder) : KindOrder[k] = type

\* the text of a stands in text, before the text of b
Before(text, a, b) ==
    /\ Position(text, strip(a.code)) > 0
    /\ Position(text, strip(a.code)) < Position(text, strip(b.code))

\* C12: in the text assembled for python of any list of components, the
\* text of a component of an earlier kind, in the order import, constant,
\* type definition, class, function, decorator, entry point, opaque,
\* stands before the text of a component of a later kind, and components
\* of one kind other than import stand in the order they were given in.
CanonicalOrdering ==
    (pc = "validate" /\ language = "python") =>
        \A i, j \in 1..Len(selected) :
            /\ KindRank(selected[i].type) < KindRank(selected[j].type) =>
                   Before(merged_code, selected[i], selected[j])
            /\ (i < j /\ selected[i].type = selected[j].type
                      /\ selected[i].type # IMPORT) =>
                   Before(merged_code, selected[i], selected[j])

(***************************************************************************)
(* Validation and repair                                                   *)
(***************************************************************************)
\* the text that step 6 assembles of the ordered components
Assembled ==
    CodeMerger_merge(ordered, language,
                     CHOOSE iteration \in Iterations(import_line_set(ordered)) : TRUE)

\* the entries of the log that report a failed validation
Failures(log) == SelectSeq(log, LAMBDA e : Len(e) = 2 /\ e[1] = "Validation failed:")

\* what merge returns of the assembled text whose validation is first:
\* the text itself when it is valid, and else the text repaired once and
\* validated once more
Protocol(assembled, first) ==
    IF first.is_valid
    THEN /\ result.merged_code = assembled
         /\ result.validation_passed
         /\ result.validation_errors = <<>>
         /\ Failures(result.merge_log) = <<>>
    ELSE /\ result.merged_code = _attempt_fix(assembled, first.errors)
         /\ result.validation_passed = validate(result.merged_code, language).is_valid
         /\ result.validation_errors = validate(result.merged_code, language).errors
         /\ Failures(result.merge_log) = <<<<"Validation failed:", first.errors>>>>

\* C13: merge repairs the assembled text only when its validation has
\* failed, once, and validates the repaired text once; it returns the
\* assembled text unchanged when the first validation passes; the
\* validation_passed and validation_errors it returns are those of the last
\* validation, and validation_errors is empty exactly when validation_passed
\* is true.
ValidateThenRepair ==
    /\ pc = "fix" => (~is_valid /\ merged_code = Assembled)
    /\ pc = "return" =>
           /\ [is_valid |-> is_valid, errors |-> errors] = validate(merged_code, language)
           /\ Len(Failures(merge_log))
                  = (IF validate(Assembled, language).is_valid THEN 0 ELSE 1)
    /\ (pc = "done" /\ all_components # <<>>) =>
           Protocol(Assembled, validate(Assembled, language))
    /\ pc = "done" => (result.validation_passed <=> result.validation_errors = <<>>)

\* merge has returned a repaired text that is valid
ValidateThenRepairWitness ==
    /\ pc = "done"
    /\ all_components # <<>>
    /\ ~validate(Assembled, language).is_valid
    /\ result.merged_code # Assembled
    /\ result.validation_passed

\* the quote characters of a text
QuoteCount(text) == Count(text, "\"") + Count(text, "'")

\* every string literal of the text is closed on the line that opens it
Terminated(text) ==
    \A k \in 1..Len(split_lines(text)) : QuoteCount(split_lines(text)[k]) % 2 = 0

\* once is the text after one repair: a second repair changes nothing, one
\* separator at most has gone and one quote at most has come, none where
\* every literal was closed
Conservative(text, once) ==
    /\ _attempt_fix(once, <<>>) = once
    /\ Count(text, ",") - Count(once, ",") <= 1
    /\ QuoteCount(once) - QuoteCount(text) <= 1
    /\ Terminated(text) => QuoteCount(once) = QuoteCount(text)

\* C14: for every text that merge gives to _attempt_fix, repairing the
\* repaired text changes nothing, the repair trims one separator before a
\* closing bracket at most and closes one string literal at most, and it
\* leaves the string literals that are closed as they are.
RepairIdempotent ==
    pc = "fix" => Conservative(merged_code, _attempt_fix(merged_code, errors))

(***************************************************************************)
(* No component                                                            *)
(***************************************************************************)
\* block k is the first of the longest of blocks
FirstLongest(blocks, k) ==
    /\ \A j \in 1..Len(blocks) : str_len(blocks[j].content) <= str_len(blocks[k].content)
    /\ \A j \in 1..(k - 1) : str_len(blocks[j].content) < str_len(blocks[k].content)

\* the result is the block as it is, with the score 50 and its origin
RawResult(block) ==
    /\ result.merged_code = block.content
    /\ result.total_score.total = 50 * result.total_score.count
    /\ DOMAIN result.components_used = {"raw"}
    /\ result.components_used["raw"] = block.source_model

\* the result of a call that found no code
EmptyResult ==
    /\ result.merged_code = <<>>
    /\ result.total_score.total = 0
    /\ DOMAIN result.components_used = {}
    /\ ~result.validation_passed
    /\ result.validation_errors # <<>>

\* C15: when no component is parsed, merge returns the content of the
\* longest of the deduplicated blocks, the first of them when several are
\* as long, with the score 50 and the origin of that block as provenance;
\* and when there is no block it returns an empty text with the score 0, no
\* provenance, validation_passed false and an error message.
ZeroComponentFallback ==
    (pc = "done" /\ all_components = <<>>) =>
        IF unique_blocks # <<>>
        THEN \E k \in 1..Len(unique_blocks) :
                 FirstLongest(unique_blocks, k) /\ RawResult(unique_blocks[k])
        ELSE EmptyResult

\* merge has returned for two blocks of one length and no component
ZeroComponentFallbackWitness ==
    /\ pc = "done"
    /\ all_components = <<>>
    /\ Len(unique_blocks) = 2
    /\ unique_blocks[1].content # unique_blocks[2].content
    /\ str_len(unique_blocks[1].content) = str_len(unique_blocks[2].content)

(***************************************************************************)
(* The log                                                                 *)
(***************************************************************************)
\* the steps of merge, in the order they run in
Steps ==
    <<"extraction", "dedup", "decomposition", "grouping", "selection", "ordering",
      "assembly", "validation", "repair">>

\* the steps that an entry of the log reports, by the words of the entry:
\*   Parsed n blocks from origin / After dedup: n unique blocks /
\*   Parsed n components / Grouped into n component groups /
\*   sig: chose origin from origins / Validation failed: errors
StepsOf(entry) ==
    CASE Len(entry) = 4 -> {"extraction"}
      [] Len(entry) = 3 /\ entry[1] = "After dedup:" -> {"dedup"}
      [] Len(entry) = 3 /\ entry[1] = "Parsed" -> {"decomposition"}
      [] Len(entry) = 3 /\ entry[1] = "Grouped into" -> {"grouping"}
      [] Len(entry) = 5 -> {"selection"}
      [] Len(entry) = 2 -> {"validation", "repair"}
      [] OTHER -> {}

\* the step ran in the call that has returned
Ran(step) ==
    CASE step = "extraction" -> outputs # <<>>
      [] step \in {"dedup", "decomposition"} -> TRUE
      [] step = "repair" ->
             all_components # <<>> /\ ~validate(Assembled, language).is_valid
      [] OTHER -> all_components # <<>>

\* the entries of the log stand in the order of the steps
InStepOrder(log) ==
    \A j, k \in 1..Len(log) :
        \A a, b \in 1..Len(Steps) :
            (j < k /\ Steps[a] \in StepsOf(log[j]) /\ Steps[b] \in StepsOf(log[k])
                   /\ StepsOf(log[j]) # StepsOf(log[k])) => a < b

\* C16: when merge returns, every step that ran has an entry in merge_log,
\* the extraction one entry for every origin, and the entries stand in the
\* order the steps ran in.
LogComplete ==
    pc = "done" =>
        /\ \A a \in 1..Len(Steps) :
               Ran(Steps[a]) =>
                   \E k \in 1..Len(result.merge_log) : Steps[a] \in StepsOf(result.merge_log[k])
        /\ \A o \in 1..Len(outputs) :
               \E k \in 1..Len(result.merge_log) :
                   /\ StepsOf(result.merge_log[k]) = {"extraction"}
                   /\ result.merge_log[k][4] = outputs[o].model
        /\ InStepOrder(result.merge_log)

\* the origins of the members of a group, in order
Origins(members) == [k \in 1..Len(members) |-> members[k].source_model]

\* the entry of the log for the choice of chosen among the members of g
DecisionEntry(g, chosen) ==
    <<g.sig, "chose", chosen.source_model, "from", Origins(g.members)>>

\* C17: when merge has returned, the log has for every group of more than
\* one member an entry with the signature of the group, the origin of the
\* selected component and the origins of all members in the order they were
\* seen in, and one member of the group is selected.
AlternativesLogged ==
    (pc = "done" /\ all_components # <<>>) =>
        /\ Len(selected) = Len(groups)
        /\ \A g \in 1..Len(groups) :
               /\ selected[g] \in Range(groups[g].members)
               /\ Len(groups[g].members) > 1 =>
                      DecisionEntry(groups[g], selected[g]) \in Range(result.merge_log)

\* merge has returned with a group of two origins of which the second is
\* selected
AlternativesLoggedWitness ==
    /\ pc = "done"
    /\ \E g \in 1..Len(groups) :
           /\ Len(groups[g].members) = 2
           /\ groups[g].members[1].source_model # groups[g].members[2].source_model
           /\ selected[g] = groups[g].members[2]
           /\ selected[g] # groups[g].members[1]

(***************************************************************************)
(* Calls that follow and cross each other                                  *)
(***************************************************************************)
\* the log and the selection of a call whose components are comps
Selected(comps, log) ==
    select_best(group(comps),
                [selected |-> <<>>, components_used |-> EmptyDict,
                 log |-> Append(log, <<"Grouped into", Len(group(comps)),
                                       "component groups">>)])

\* the result of a call whose selection is sel and whose assembled text is
\* text, first the validation of text
Validated(sel, text, lang, first) ==
    IF first.is_valid
    THEN MergeResult(text, Quotient(sum_scores(sel.selected), Len(sel.selected)),
                     sel.components_used, sel.log, TRUE, <<>>)
    ELSE MergeResult(_attempt_fix(text, first.errors),
                     Quotient(sum_scores(sel.selected), Len(sel.selected)),
                     sel.components_used,
                     Append(sel.log, <<"Validation failed:", first.errors>>),
                     validate(_attempt_fix(text, first.errors), lang).is_valid,
                     validate(_attempt_fix(text, first.errors), lang).errors)

\* the text assembled of a selection
AssembledOf(sel, lang) ==
    CodeMerger_merge(_order_by_dependency(sel.selected), lang,
                     CHOOSE iteration \in Iterations(import_line_set(
                                                         _order_by_dependency(sel.selected))) :
                         TRUE)

\* the result of a call with the deduplicated blocks and the components comps
ResultOf(blocks, comps, log, lang) ==
    IF comps # <<>>
    THEN Validated(Selected(comps, log), AssembledOf(Selected(comps, log), lang), lang,
                   validate(AssembledOf(Selected(comps, log), lang), lang))
    ELSE IF blocks # <<>>
    THEN MergeResult(max_block(blocks, blocks[1]).content, Quotient(50, 1),
                     dict_set(EmptyDict, "raw", max_block(blocks, blocks[1]).source_model),
                     Append(log, <<"Using raw block (no parseable components)">>), TRUE, <<>>)
    ELSE MergeResult(<<>>, Quotient(0, 1), EmptyDict, Append(log, <<"No code found">>),
                     FALSE, <<<<"No code to merge">>>>)

\* what merge(outs, language=lang) returns when it is the only call that a
\* merger ever gets
Alone(outs, lang) ==
    LET blocks == deduplicate(parse_outputs(outs).blocks)
        comps == parse_blocks(blocks)
    IN  ResultOf(blocks, comps,
                 parse_outputs(outs).log
                   \o <<<<"After dedup:", Len(blocks), "unique blocks">>,
                        <<"Parsed", Len(comps), "components">>>>,
                 lang)

\* C18: whatever calls a merger has had and whatever call of another thread
\* runs between the steps of a call, the call returns what it returns
\* alone, and no step of the call changes the mapping it was given.
Stateless ==
    [][/\ pc' = "done" => result' = Alone(outputs', language')
       /\ (pc \notin {"idle", "done"} /\ suspended' = suspended) => outputs' = outputs]_vars

\* a call has returned after two calls were made before it, while the call
\* of the other thread on another mapping has its text assembled
StatelessWitness ==
    /\ pc = "done"
    /\ Len(history) = 3
    /\ suspended.pc = "validate"
    /\ suspended.outputs # outputs
    /\ result.merged_code # <<>>

(***************************************************************************)
(* ComponentGrouper.group                                                  *)
(***************************************************************************)
\* where c first stands in components
FirstSeen(components, c) ==
    CHOOSE k \in 1..Len(components) :
        components[k] = c /\ \A j \in 1..(k - 1) : components[j] # c

\* the groups of c among the groups
GroupsOf(gs, c) == {g \in 1..Len(gs) : c \in Range(gs[g].members)}

\* the groups are a partition of the components: no group is empty, every
\* component is in one group and no other, the members of a group are in
\* the order of the components, and the groups have different keys and are
\* in the order that their first members were seen in
Partition(components, gs) ==
    /\ \A g \in 1..Len(gs) :
           /\ gs[g].members # <<>>
           /\ gs[g].members = SelectSeq(components, LAMBDA c : c \in Range(gs[g].members))
    /\ \A c \in Range(components) : Cardinality(GroupsOf(gs, c)) = 1
    /\ \A g, h \in 1..Len(gs) :
           g < h => /\ gs[g].sig # gs[h].sig
                    /\ FirstSeen(components, gs[g].members[1])
                         < FirstSeen(components, gs[h].members[1])

\* the kind and the name of a and b are the same, the normalised text when
\* they are imports
SameKindAndName(a, b) ==
    /\ a.type = b.type
    /\ IF a.type = IMPORT THEN normalized(a.code) = normalized(b.code) ELSE a.name = b.name

\* the text of the component begins with the def or the class that names
\* it, and the text of an import is normalised
HeaderFirst(c) ==
    CASE c.type = FUNCTION -> def_pattern(c.code) = c.name
      [] c.type = CLASS -> class_pattern(c.code) = c.name
      [] c.type = IMPORT -> c.code = normalized(c.code)
      [] OTHER -> TRUE

RECURSIVE Regions(_, _)
Regions(text, k) ==
    LET open == IF k > Len(text) THEN 0 ELSE IndexFrom(text, FENCE, k)
        nl == IF open = 0 THEN 0 ELSE IndexFrom(text, NL, open + 1)
        close == IF nl = 0 THEN 0 ELSE IndexFrom(text, FENCE, nl + 1)
    IN  IF close = 0 THEN <<>>
        ELSE <<[tag |-> SubSeq(text, open + 1, nl - 1),
                content |-> SubSeq(text, nl + 1, close - 1)]>>
             \o Regions(text, close + 1)

\* the regions whose trimmed content is not empty
FilledRegions(text) ==
    SelectSeq(Regions(text, 1), LAMBDA r : strip(r.content) # <<>>)

\* a region and the block made of it: the trimmed content, the origin, and for
\* a tag of at most one word the lower-cased tag, its alias resolved
BlockOfRegion(b, r, model) ==
    /\ b.content = strip(r.content)
    /\ b.source_model = model
    /\ r.tag = <<>> => b.language = "text"
    /\ Len(r.tag) = 1 => b.language = LANGUAGE_ALIASES(lower(r.tag[1]))

\* C20: when the texts of a call have been parsed, each origin has no block if
\* its text is empty, and if its text has a fenced region with content it has
\* one block per such region, in the order of the regions, with that region's
\* trimmed content, the origin's id and the region's normalised tag
BlockExtraction ==
    pc = "dedup" =>
        \A k \in 1..Len(outputs) :
            /\ outputs[k].output = <<>> => BlocksOf(outputs[k].model) = <<>>
            /\ FilledRegions(outputs[k].output) # <<>> =>
                /\ Len(BlocksOf(outputs[k].model)) = Len(FilledRegions(outputs[k].output))
                /\ \A i \in 1..Len(FilledRegions(outputs[k].output)) :
                      BlockOfRegion(BlocksOf(outputs[k].model)[i],
                                    FilledRegions(outputs[k].output)[i],
                                    outputs[k].model)

(***************************************************************************)
(* Decomposition                                                           *)
(***************************************************************************)
\* the identifiers that a top-level assignment gives a value to: the targets
\* of target = value, the annotated name of name: annotation = value
AssignedNames(node, lines) ==
    IF node.type = "Assign" THEN node.targets
    ELSE IF node.type = "AnnAssign" THEN <<code_tokens(lines[node.lineno], "")[1]>>
    ELSE <<>>

\* the kind that the rules give a top-level statement, <<>> for none
KindByRule(node, lines) ==
    IF node.type \in {"Import", "ImportFrom"} THEN <<IMPORT>>
    ELSE IF node.type \in {"FunctionDef", "AsyncFunctionDef"} THEN <<FUNCTION>>
    ELSE IF node.type = "ClassDef" THEN <<CLASS>>
    ELSE IF \E i \in 1..Len(AssignedNames(node, lines)) :
                isupper(AssignedNames(node, lines)[i])
    THEN <<CONSTANT_T>>
    ELSE <<>>

RECURSIVE KindsOfBody(_, _)
KindsOfBody(body, lines) ==
    IF body = <<>> THEN <<>>
    ELSE KindByRule(Head(body), lines) \o KindsOfBody(Tail(body), lines)

\* the blocks that merge gives to the component parser
Decomposed(blocks) ==
    SelectSeq(blocks, LAMBDA b : b.language \in {"python", "text"})

RECURSIVE KindsOfBlocks(_)
KindsOfBlocks(blocks) ==
    IF blocks = <<>> THEN <<>>
    ELSE KindsOfBody(ast_parse(Head(blocks).content).body, split_lines(Head(blocks).content))
             \o KindsOfBlocks(Tail(blocks))

\* C21: when every block given to the component parser parses, the kinds of
\* the components are, in source order, Import for each import statement,
\* Function for each top-level definition, Class for each top-level class and
\* Constant for each top-level assignment to an upper-case identifier, and
\* nothing else
DecompositionRules ==
    (/\ pc \in {"group", "fallback"}
     /\ \A i \in 1..Len(Decomposed(unique_blocks)) :
            ast_parse(Decomposed(unique_blocks)[i].content).ok)
        => [i \in 1..Len(all_components) |-> all_components[i].type]
               = KindsOfBlocks(Decomposed(unique_blocks))

(***************************************************************************)
(* Properties of validator.py                                              *)
(***************************************************************************)
KnownModels == frozenset(all_models)

\* C22: the validator chosen is the one chosen for every list of the same set
\* of primaries, it is gemini for claude-code with codex and codex for gemini
\* with claude-code, and it is no primary unless the four known models are
\* all primaries
ValidatorSelection ==
    validator_model # "" =>
        /\ \A pm \in PrimaryLists :
              frozenset(pm) = frozenset(primary_models)
                  => select_validator(pm) = validator_model
        /\ frozenset(primary_models) = {"claude-code", "codex"} => validator_model = "gemini"
        /\ frozenset(primary_models) = {"gemini", "claude-code"} => validator_model = "codex"
        /\ ~(KnownModels \subseteq frozenset(primary_models))
              => validator_model \notin frozenset(primary_models)

\* three known models are primaries, claude-code among them, in an order that
\* is not the order of all_models: the one left is chosen
ValidatorSelectionWitness ==
    /\ primary_models = <<"grok", "claude-code", "codex">>
    /\ validator_model = "gemini"

\* a reason that speaks of the confidence
MentionsConfidence(reason) == reason[1] = "Validator confidence"

\* a trigger is in the summary or in a concern, in any case of letters
KeywordOccurs(v) ==
    \E i \in 1..Len(ESCALATION_TRIGGERS) :
        \/ trigger_in(ESCALATION_TRIGGERS[i], lower_text(v.summary))
        \/ \E k \in 1..Len(v.concerns) :
              trigger_in(ESCALATION_TRIGGERS[i], lower_text(v.concerns[k]))

\* the result that needs no review
Clean(v) ==
    /\ v.confidence >= CONFIDENCE_THRESHOLD
    /\ v.concerns = <<>>
    /\ \A i \in 1..Len(v.analyses) : v.analyses[i].issues = <<>>
    /\ ~KeywordOccurs(v)
    /\ \E i \in 1..Len(v.analyses) : v.analyses[i].merge_worthy

\* C23: should_escalate returns true with a reason that mentions the
\* confidence when the confidence is under the threshold, it returns true
\* exactly when it returns a reason, and it returns false exactly for a result
\* at or over the threshold with no concern, no issue, no trigger word and an
\* output worth merging
Escalation ==
    validation_result # NoValidation =>
        /\ validation_result.confidence < CONFIDENCE_THRESHOLD
              => /\ escalation.should_escalate
                 /\ \E i \in 1..Len(escalation.reasons) :
                       MentionsConfidence(escalation.reasons[i])
        /\ escalation.should_escalate <=> escalation.reasons # <<>>
        /\ ~escalation.should_escalate <=> Clean(validation_result)

\* a result over the threshold with nothing against it but a trigger inside a
\* word of its summary
EscalationWitness ==
    /\ validation_result.confidence = 100
    /\ validation_result.summary = <<"monkey">>
    /\ validation_result.concerns = <<>>
    /\ Len(validation_result.analyses) = 1
    /\ validation_result.analyses[1].merge_worthy
    /\ validation_result.analyses[1].issues = <<>>
    /\ escalation.should_escalate
    /\ Len(escalation.reasons) = 1

(***************************************************************************)
(* Targets other than python                                               *)
(***************************************************************************)
\* the texts of the components, two line breaks between them
Concatenated(components) ==
    join(<<NL, NL>>, [i \in 1..Len(components) |-> components[i].code])

\* C24: for a target language other than python the text assembled is the
\* texts of the selected components, joined in the order in which they were
\* selected, which is the order in which their groups were first seen
NoReordering ==
    (pc = "validate" /\ language # "python") => merged_code = Concatenated(selected)

(***************************************************************************)
(* Provenance                                                              *)
(***************************************************************************)
\* the keys of the mapping that merge was called with
InputKeys == {outputs[k].model : k \in 1..Len(outputs)}

\* C25: once a call on the structural path has returned, every selected
\* component has an entry in components_used under its name, the entry is the
\* component's origin, and every entry is a key of the input mapping
ProvenanceSound ==
    (pc = "done" /\ selected # <<>>) =>
        /\ \A i \in 1..Len(selected) :
              /\ selected[i].name \in DOMAIN result.components_used
              /\ result.components_used[selected[i].name] = selected[i].source_model
        /\ \A name \in DOMAIN result.components_used :
              result.components_used[name] \in InputKeys

(***************************************************************************)
(* Blocks that fail decomposition                                          *)
(***************************************************************************)
\* the unique blocks that the component parser is given and cannot parse
FailedBlocks ==
    SelectSeq(Decomposed(unique_blocks), LAMBDA b : ~ast_parse(b.content).ok)

\* C26: when two blocks fail decomposition, each of them has its own Opaque
\* component among the selected ones and its text is in the text assembled
OpaqueKeptApart ==
    (pc = "validate" /\ Len(FailedBlocks) >= 2) =>
        \A i \in 1..Len(FailedBlocks) :
            /\ \E k \in 1..Len(selected) :
                  /\ selected[k].type = OTHER_T
                  /\ selected[k].code = FailedBlocks[i].content
                  /\ selected[k].source_model = FailedBlocks[i].source_model
            /\ HasRun(merged_code, FailedBlocks[i].content)

(***************************************************************************)
(* Decorated definitions                                                   *)
(***************************************************************************)
\* the selected functions whose metadata records a decorator
Decorated ==
    SelectSeq(selected, LAMBDA c : c.type = FUNCTION /\ c.metadata.decorators # <<>>)

\* C27: the text of a selected function that has decorators begins with its
\* first decorator line, and the decorator is in the text assembled
DecoratorsKept ==
    pc = "validate" =>
        \A k \in 1..Len(Decorated) :
            /\ Decorated[k].code[1] = "@"
            /\ Has(merged_code, "@")

(***************************************************************************)
(* Properties of MultiModelOrchestrator.orchestrate                        *)
(***************************************************************************)
\* the outputs that the runs of the call returned, in the order of the submits
RECURSIVE ReturnedOf(_)
ReturnedOf(fs) ==
    IF fs = <<>> THEN <<>> ELSE Head(fs).result \o ReturnedOf(Tail(fs))

\* C28: when orchestrate returns, the consensus code and the best model
\* reported are the ones of the outputs that the runs of this call returned,
\* whatever the order in which the runs ended
CompletionOrderIndependent ==
    orchestrator_pc = "done" =>
        /\ consensus.code = _merge_consensus(ReturnedOf(futures)).code
        /\ consensus.explanation = _merge_consensus(ReturnedOf(futures)).explanation

(***************************************************************************)
(* Properties of GrokClient._request_with_retry                            *)
(***************************************************************************)
\* what a retry can follow: a 429, a 5xx, a timeout, a connection error
Transient(response) ==
    \/ response.exception \in {"Timeout", "ConnectionError"}
    \/ response.status_code = 429
    \/ response.status_code >= 500

GrokErrors == {"GrokError", "GrokRateLimitError", "GrokAuthError"}

\* C29: at most max_retries + 1 requests are sent, every request but the
\* last follows a transient failure, and the call ends by returning on a 200
\* or by raising a GrokError, the rate limit error when the last response
\* was a 429
BoundedRetry ==
    /\ Len(responses) <= max_retries + 1
    /\ \A i \in 1..(Len(responses) - 1) : Transient(responses[i])
    /\ client_pc = "done" =>
          /\ outcome.ended \in {"returned", "raised"}
          /\ outcome.ended = "returned" => responses[Len(responses)].status_code = 200
          /\ outcome.ended = "raised" => outcome.error \in GrokErrors
          /\ responses[Len(responses)].status_code = 429
                => outcome = Raised("GrokRateLimitError")

\* every call of emit has returned
Emitted ==
    \A t \in Tasks : tasks[t].pc = "done"

\* the calls i and j of emit came after the same last send, both less than
\* throttle_ms after it
SameWindow(i, j) ==
    /\ emitted[i].after = emitted[j].after
    /\ emitted[i].after > 0
    /\ emitted[i].time - sent[emitted[i].after].time < throttle_ms
    /\ emitted[j].time - sent[emitted[j].after].time < throttle_ms

\* the events of calls i and j went out in one message
Combined(i, j) ==
    \E k \in 1..Len(sent) :
        /\ \E n \in 1..Len(sent[k].events) : sent[k].events[n] = emitted[i].progress
        /\ \E n \in 1..Len(sent[k].events) : sent[k].events[n] = emitted[j].progress

\* consecutive messages are at least throttle_ms apart
Throttled ==
    \A k \in 1..(Len(sent) - 1) : sent[k + 1].time - sent[k].time >= throttle_ms

RECURSIVE SentEvents(_)
\* the events of the first k messages, in the order sent
SentEvents(k) ==
    IF k = 0 THEN <<>> ELSE SentEvents(k - 1) \o sent[k].events

\* every emitted event was sent exactly once, in emission order
SentOnceInOrder ==
    SentEvents(Len(sent)) = [i \in 1..Len(emitted) |-> emitted[i].progress]

\* C30: with batch_events enabled, once every call of emit has returned,
\* events whose calls came within throttle_ms of the same last send went out
\* in a single message, consecutive messages are at least throttle_ms apart,
\* and every emitted event was sent exactly once in emission order
Batching ==
    Emitted =>
        /\ \A i, j \in 1..Len(emitted) : SameWindow(i, j) => Combined(i, j)
        /\ Throttled
        /\ SentOnceInOrder
====
